---- MODULE Spec2Model ----
(***************************************************************************)
(* Model of the serial transport of ec-test-app (rust/src/serial.rs):      *)
(* frame encoding (prepend_headers, append_cmd), the exchange performed by *)
(* Serial::send under the port mutex, the facade operations that call it,  *)
(* and the channel with its peer.                                          *)
(* A byte array [0u8; BUFFER_SZ] is held as the sequence of its bytes up to *)
(* the last non-zero one (Zeros is the empty sequence); At, Slice and Put  *)
(* use the source's 0-based offsets and Full gives the whole array.        *)
(***************************************************************************)
EXTENDS Integers, Sequences, FiniteSets, TLC

\* ---------------------------------------------------------------- constants
SMBUS_HEADER_SZ == 4
SMBUS_LEN_IDX == 2
MCTP_FLAGS_IDX == 7
MCTP_HEADER_SZ == 5
ODP_HEADER_SZ == 2
HEADER_SZ == SMBUS_HEADER_SZ + MCTP_HEADER_SZ + ODP_HEADER_SZ
CMD_CODE_SZ == 2
BUFFER_SZ == 256
MCTP_MAX_PACKET_LEN == 69

\* ------------------------------------------------------------------- bounds
\* number of Serial::send calls made in a run
MaxCalls == 2
\* number of packets the peer puts on the link in a run
MaxPackets == 2
\* number of full-size continuation packets the peer sends in a long answer
MaxFill == 4
\* packets of one exchange that are counted (the count saturates here)
MaxRead == 8

\* threads holding a clone of the Serial handle
Callers == {1, 2}

\* ------------------------------------------------------------ byte helpers
Min(a, b) == IF a < b THEN a ELSE b

Max(a, b) == IF a < b THEN b ELSE a

\* [0u8; BUFFER_SZ]
Zeros == <<>>

\* buf[i]
At(buf, i) == IF i < Len(buf) THEN buf[i + 1] ELSE 0

\* buf[a..b] of the source (b exclusive)
Slice(buf, a, b) == [i \in 1..(b - a) |-> At(buf, a + i - 1)]

\* the array without its trailing zero bytes
RECURSIVE Trim(_)
Trim(s) ==
    IF s = <<>> \/ s[Len(s)] # 0 THEN s ELSE Trim(SubSeq(s, 1, Len(s) - 1))

\* buf[at..at + bytes.len()].copy_from_slice(bytes)
Put(buf, at, bytes) ==
    Trim([i \in 1..Max(Len(buf), at + Len(bytes)) |->
            IF i > at /\ i <= at + Len(bytes) THEN bytes[i - at] ELSE At(buf, i - 1)])

\* all BUFFER_SZ bytes of the array
Full(buf) == [i \in 1..BUFFER_SZ |-> At(buf, i - 1)]

Drop(s, n) == SubSeq(s, n + 1, Len(s))

\* u16::to_be_bytes / u16::from_be_bytes
to_be_bytes(v) == <<(v \div 256) % 256, v % 256>>

from_be_bytes(b) == b[1] * 256 + b[2]

as_u8_7bit(x) == x % 128

\* `x as u8`
as_u8(x) == x % 256

\* the Start-of-Message and End-of-Message bits of a flags byte
SOM(flags) == (flags \div 128) % 2 = 1

EOM(flags) == (flags \div 64) % 2 = 1

\* -------------------------------------------------------------- Frame Codec
Destinations == {"Battery", "Thermal", "TimeAlarm"}

DstByte_alarm_0A(dst) ==
    CASE dst = "Battery" -> 8
      [] dst = "Thermal" -> 9
      [] dst = "TimeAlarm" -> 10

\* lines 40-48
DstByte(dst) ==
    CASE dst = "Battery" -> 8
      [] dst = "Thermal" -> 9
      [] dst = "TimeAlarm" -> 11

prepend_headers_short_len(buffer, dst, payload_sz) ==
    Put(buffer, 0,
        <<2, 15, as_u8(MCTP_HEADER_SZ + payload_sz), 1,
          1, DstByte(dst), 128, 211, 125,
          2, DstByte(dst)>>)

\* lines 50-67
prepend_headers(buffer, dst, payload_sz) ==
    Put(buffer, 0,
        <<2, 15, as_u8(MCTP_HEADER_SZ + ODP_HEADER_SZ + payload_sz), 1,
          1, DstByte(dst), 128, 211, 125,
          2, DstByte(dst)>>)

serialize_unchecked(region_sz, bytes) == [ok |-> TRUE, sz |-> Len(bytes)]

\* SerializableMessage::serialize writes the message's bytes at the start of
\* the region it is given and fails when they do not fit.
serialize(region_sz, bytes) ==
    IF Len(bytes) <= region_sz
    THEN [ok |-> TRUE, sz |-> Len(bytes)]
    ELSE [ok |-> FALSE, sz |-> 0]

append_cmd_one_mctp_packet(to, bytes, cmd_code) ==
    LET coded == Put(to, HEADER_SZ, to_be_bytes(cmd_code))
        ser == serialize(BUFFER_SZ - (HEADER_SZ + CMD_CODE_SZ), bytes)
    IN  IF ser.ok
        THEN [ok |-> TRUE,
              sz |-> Min(ser.sz + CMD_CODE_SZ,
                         MCTP_MAX_PACKET_LEN - MCTP_HEADER_SZ - ODP_HEADER_SZ),
              buf |-> Put(coded, HEADER_SZ + CMD_CODE_SZ, bytes)]
        ELSE [ok |-> FALSE, sz |-> 0, buf |-> coded]

\* lines 69-77: the discriminant at 11..12, the serialized request from 13
\* on; returns the size of both
append_cmd(to, bytes, cmd_code) ==
    LET coded == Put(to, HEADER_SZ, to_be_bytes(cmd_code))
        ser == serialize(BUFFER_SZ - (HEADER_SZ + CMD_CODE_SZ), bytes)
    IN  IF ser.ok
        THEN [ok |-> TRUE,
              sz |-> ser.sz + CMD_CODE_SZ,
              buf |-> Put(coded, HEADER_SZ + CMD_CODE_SZ, bytes)]
        ELSE [ok |-> FALSE, sz |-> 0, buf |-> coded]

\* ------------------------------------------------------------ Domain Facade
\* the operations that build a request and call Serial::send
Operations ==
    {"get_temperature", "thermal_get_var", "thermal_set_var",
     "get_bst", "get_bix", "set_btp",
     "get_capabilities", "get_real_time", "get_wake_status",
     "get_expired_timer_wake_policy", "get_timer_value"}

\* the Destination each operation passes to send
FacadeDst(op) ==
    CASE op \in {"get_temperature", "thermal_get_var", "thermal_set_var"} -> "Thermal"
      [] op \in {"get_bst", "get_bix", "set_btp"} -> "Battery"
      [] OTHER -> "TimeAlarm"

\* ------------------------------------------------------------------- inputs
\* discriminants of the requests issued (two distinct bytes each)
Discriminants == {258, 769}

\* sizes of the serialized request payloads; 244 does not fit after the
\* 13 header and discriminant bytes
PayloadSizes == {0, 6, 243, 244}

\* a request: destination, discriminant, size of its serialized payload, and
\* the operation that issues it
AllRequests ==
    {<<FacadeDst(op), code, n, op>> :
        op \in Operations, code \in Discriminants, n \in PayloadSizes}

OneRequest == {<<"Thermal", 258, 6, "get_temperature">>}

TwoRequests == OneRequest \cup {<<"Battery", 769, 6, "get_bst">>}

\* the serialized request payload of n bytes
ReqBytes(n) == [i \in 1..n |-> (i % 250) + 1]

\* length bytes and flag bytes the peer may put in a packet
LenBytes == {3, 5, 14, 69, 70}

FlagBytes == {19, 83, 147, 211}

\* the packets <<length byte, flags byte>> of the runs with several calls
LinkMenu == {5, 14, 70} \X {19, 211}

\* A run is one of: MaxCalls calls of two requests answered with one packet of
\* LinkMenu; two calls answered with up to MaxPackets packets of LinkMenu; one
\* call answered with a long answer (two packets of any kind and up to MaxFill
\* full continuation packets); one call of any request, answered with one
\* packet.
Scenarios ==
    { [calls |-> MaxCalls, packets |-> 1, fills |-> 0,
       requests |-> TwoRequests, menu |-> LinkMenu],
      [calls |-> 2, packets |-> MaxPackets, fills |-> 0,
       requests |-> OneRequest, menu |-> LinkMenu],
      [calls |-> 1, packets |-> 2, fills |-> MaxFill,
       requests |-> OneRequest, menu |-> LenBytes \X FlagBytes],
      [calls |-> 1, packets |-> 1, fills |-> 0,
       requests |-> AllRequests, menu |-> {<<14, 211>>}] }

\* packets with a valid length byte, EOM clear and an empty payload slice:
\* a continuation packet of 5 bytes, a SOM packet of 9 bytes
EmptyPackets == {<<5, 19>>, <<9, 147>>}

\* A streaming run: MaxCalls calls of one request, and a peer that never sets
\* EOM and sends, for as long as its packets are read, either packets with an
\* empty payload slice or full continuation packets.
StreamScenarios ==
    { [calls |-> MaxCalls, packets |-> 0, fills |-> 0,
       requests |-> OneRequest, menu |-> EmptyPackets],
      [calls |-> MaxCalls, packets |-> 0, fills |-> 0,
       requests |-> OneRequest, menu |-> {<<MCTP_MAX_PACKET_LEN, 19>>}] }

\* -------------------------------------------------------------------- state
VARIABLES
    pc,            \* position of each caller in Serial::send
    request,       \* arguments of each caller's call: <<dst, discriminant, size>>
    buffer,        \* request buffer of each call
    request_sz,    \* size returned by append_cmd
    response_buf,  \* reassembly buffer
    offset,        \* reassembly offset
    cmd_code,      \* captured discriminant
    packet,        \* per-iteration packet buffer (the loop's `buffer`)
    result,        \* what the last call returned to each caller
    reply,         \* what the operation returned to its caller
    lock,          \* owner of the port mutex, 0 when free
    poisoned,      \* the mutex was released by a panicking holder
    input,         \* the channel's input buffer (bytes not yet read)
    wire,          \* frames written to the channel, in order
    peerDone,      \* number of requests the peer has finished answering
    peerOff,       \* payload bytes of the current response already sent
    peerRest,      \* remainder of a packet whose header is already delivered
    nPackets,      \* packets the peer may still send
    nFill,         \* full continuation packets the peer may still send
    calls,         \* Serial::send calls that may still be made
    requests,      \* the requests the callers issue in this run
    menu,          \* the packets the peer sends in this run
    myReq,         \* position in `wire` of the frame each caller's call wrote
    clean,         \* the link was idle when that frame was written
    nread,         \* packets processed by each caller's exchange
    sent,          \* log of the packets sent by the peer: <<frame, len, flags>>
    ops,           \* channel operations done in each caller's running exchange
    stale,         \* bytes at the head of `input` left by an ended exchange
    discarded      \* bytes thrown away by the latest clear

serial == <<pc, request, buffer, request_sz, response_buf, offset, cmd_code,
            packet, result, reply, lock, poisoned, input, wire, peerDone, peerOff,
            peerRest, nPackets, nFill, calls, requests, menu, myReq, clean, nread,
            sent, ops, stale, discarded>>

locals == <<request, buffer, request_sz, response_buf, offset, cmd_code, packet,
            nread>>

peer == <<peerDone, peerOff, peerRest, nPackets, nFill, sent>>

NoResult == [kind |-> "None", cmd_code |-> 0, response_buf |-> Zeros, offset |-> 0]

Err(kind) == [kind |-> kind, cmd_code |-> 0, response_buf |-> Zeros, offset |-> 0]

match_response_defaulting(req, res) ==
    IF res.kind # "Ok"
    THEN [kind |-> res.kind, value |-> Zeros]
    ELSE IF res.cmd_code = req[2]
    THEN [kind |-> "Ok", value |-> res.response_buf]
    ELSE [kind |-> "Ok", value |-> Zeros]

\* the operation's match on the response of send: an error of send is passed
\* on (`?`); a decoded response is unwrapped when it is the variant the
\* operation expects, the one paired with its request, and is an error
\* otherwise
match_response(req, res) ==
    IF res.kind # "Ok"
    THEN [kind |-> res.kind, value |-> Zeros]
    ELSE IF res.cmd_code = req[2]
    THEN [kind |-> "Ok", value |-> res.response_buf]
    ELSE [kind |-> "WrongResponse", value |-> Zeros]

NoReply == [kind |-> "None", value |-> Zeros]

\* ------------------------------------------------- dashboard modules: state
\* battery.rs line 27
MAX_SAMPLES == 60

\* update calls of the Battery module in a run with key events
MaxTicks == 3

\* update calls of the Battery module in a run without key events
MaxLongTicks == 121

\* characters the trip point input may hold
MaxInput == 2

\* distinct values a time stamp or a capabilities word takes in one run
MaxStamp == 2

\* lines the Debug module caches in a run (fewer than its MAX_LOGS)
MaxLogs == 5

\* lines of one decoded frame
MaxFrame == 2

\* rows of the inner area of the log pane
MaxHeight == 3

VARIABLES
    rtc,           \* the Rtc module: capabilities, timestamp, timers
    battery,       \* the Battery module: bst_data, bix_data, state, t_sec, t_min
    built,         \* which modules have been constructed
    budget,        \* the ticks and key events the application delivers in this run
    last,          \* the latest handler run and the source calls it made, in order
    debug,         \* the Debug module: scroll states, cached log lines, input
    mock           \* the statics of the Mock source

ui == <<rtc, battery, built, budget, last, debug, mock>>

vars == <<serial, ui>>

\* rtc.rs line 19
DATA_NOT_YET_RETRIEVED_MSG == "Data not yet retrieved"

\* the message of an error returned by a source call
SOURCE_ERROR == "source error"

\* Result<T>: Ok(value) and Err(report)
Ok(v) == [ok |-> TRUE, v |-> v, msg |-> ""]

Failed(msg) == [ok |-> FALSE, v |-> 0, msg |-> msg]

\* what a source call can return with values from V
Results(V) == {Ok(v) : v \in V} \cup {Failed(SOURCE_ERROR)}

\* AcpiTimerId: AcPower and DcPower, used as the index into `timers`
AcpiTimerId == {0, 1}

\* RtcTimer::new
RtcTimer_new(timer_id) ==
    [timer_id |-> timer_id,
     value |-> Failed(DATA_NOT_YET_RETRIEVED_MSG),
     wake_policy |-> Failed(DATA_NOT_YET_RETRIEVED_MSG),
     timer_status |-> Failed(DATA_NOT_YET_RETRIEVED_MSG)]

\* the struct literal of Rtc::new, before its first update
Rtc_literal ==
    [capabilities |-> Failed(DATA_NOT_YET_RETRIEVED_MSG),
     timestamp |-> Failed(DATA_NOT_YET_RETRIEVED_MSG),
     timers |-> [id \in AcpiTimerId |-> RtcTimer_new(id)]]

\* BatteryTabState::default
BatteryTabState_default ==
    [btp |-> 0, btp_input |-> <<>>, bst_success |-> FALSE, bix_success |-> FALSE,
     btp_success |-> TRUE, samples |-> <<>>]

\* the struct literal of Battery::new, before get_bix; bst_data and bix_data
\* stand for the remaining capacity and the design capacity they carry
Battery_literal ==
    [bst_data |-> 0, bix_data |-> 0, state |-> BatteryTabState_default,
     t_sec |-> 0, t_min |-> 0]

NoHandler == [handler |-> "none", calls |-> <<>>]

\* ScrollState::default (the ratatui ScrollbarState, which the module writes
\* and never reads, is left out)
ScrollState_default == [pos |-> 0, length |-> 0]

\* no subtraction evaluated by update_scroll
NoSub == [evaluated |-> FALSE, height |-> 0, new_lines |-> 0]

\* the struct literal of Debug::new; logs stands for logs.len(), sub records
\* the operands of `height - new_lines` in the latest update_scroll
Debug_new(decoder) ==
    [decoder |-> decoder, y_scroll |-> ScrollState_default,
     x_scroll |-> ScrollState_default, max_log_len |-> 0, logs |-> 0,
     input |-> <<>>, panicked |-> FALSE, sub |-> NoSub]

\* mock.rs: STATE and CAPACITY of get_bst, SAMPLE of get_temperature, before
\* the first call; sub records the operand of `new_capacity -= RATE` in the
\* latest get_bst
Mock_statics ==
    [STATE |-> 2, CAPACITY |-> 0, SAMPLE |-> <<2732, 1>>, panicked |-> FALSE,
     sub |-> [evaluated |-> FALSE, capacity |-> 0]]

\* a run in which the application delivers no tick and no key event
NoBudget == [ticks |-> 0, events |-> FALSE]

\* no module constructed yet
UiStart(b) ==
    /\ rtc = Rtc_literal
    /\ battery = Battery_literal
    /\ built = [rtc |-> FALSE, battery |-> FALSE, debug |-> FALSE]
    /\ budget = b
    /\ last = NoHandler
    /\ debug = Debug_new(FALSE)
    /\ mock = Mock_statics

\* the state after Serial::new in a run of scenario s
Start(s) ==
    /\ pc = [c \in Callers |-> "idle"]
    /\ request = [c \in Callers |-> <<>>]
    /\ buffer = [c \in Callers |-> Zeros]
    /\ request_sz = [c \in Callers |-> 0]
    /\ response_buf = [c \in Callers |-> Zeros]
    /\ offset = [c \in Callers |-> 0]
    /\ cmd_code = [c \in Callers |-> 0]
    /\ packet = [c \in Callers |-> Zeros]
    /\ result = [c \in Callers |-> NoResult]
    /\ reply = [c \in Callers |-> NoReply]
    /\ lock = 0
    /\ poisoned = FALSE
    /\ input = <<>>
    /\ wire = <<>>
    /\ peerDone = 0
    /\ peerOff = 0
    /\ peerRest = <<>>
    /\ calls = s.calls
    /\ nPackets = s.packets
    /\ nFill = s.fills
    /\ requests = s.requests
    /\ menu = s.menu
    /\ myReq = [c \in Callers |-> 0]
    /\ clean = [c \in Callers |-> FALSE]
    /\ nread = [c \in Callers |-> 0]
    /\ sent = <<>>
    /\ ops = [c \in Callers |-> <<>>]
    /\ stale = 0
    /\ discarded = 0
    /\ UiStart(IF "ticks" \in DOMAIN s
               THEN [ticks |-> s.ticks, events |-> s.events]
               ELSE NoBudget)

Init == \E s \in Scenarios : Start(s)

ReturnHoldingLock(c, res) ==
    /\ pc' = [pc EXCEPT ![c] = "idle"]
    /\ result' = [result EXCEPT ![c] = res]
    /\ reply' = [reply EXCEPT ![c] = match_response(request[c], res)]
    /\ ops' = [ops EXCEPT ![c] = <<>>]
    /\ UNCHANGED <<lock, poisoned, locals>>

\* a return while the guard is held (`?` on an error, or the final value):
\* the guard is dropped and the mutex is free again
Return(c, res) ==
    /\ pc' = [pc EXCEPT ![c] = "idle"]
    /\ result' = [result EXCEPT ![c] = res]
    /\ reply' = [reply EXCEPT ![c] = match_response(request[c], res)]
    /\ lock' = 0
    /\ ops' = [ops EXCEPT ![c] = <<>>]
    /\ UNCHANGED <<poisoned, locals>>

\* a panic while the guard is held: unwinding drops the guard and poisons
\* the mutex
Panic(c) ==
    /\ pc' = [pc EXCEPT ![c] = "panicked"]
    /\ result' = [result EXCEPT ![c] = Err("Panic")]
    /\ reply' = [reply EXCEPT ![c] = NoReply]
    /\ lock' = 0
    /\ poisoned' = TRUE
    /\ ops' = [ops EXCEPT ![c] = <<>>]
    /\ UNCHANGED locals

\* ------------------------------------------------------------ Serial::send
\* caller c has called a method of the port in the exchange it is in; the
\* reads of the loop count as one
Did(c, op) ==
    ops' = [ops EXCEPT ![c] = IF op = "read" /\ @ # <<>> /\ @[Len(@)] = "read"
                              THEN @
                              ELSE Append(@, op)]

\* lines 112-122: serialize the command, then the headers; no channel
\* operation and no lock yet
Call(c, dst, code, n, op) ==
    /\ pc[c] = "idle"
    /\ calls > 0
    /\ <<dst, code, n, op>> \in requests
    /\ calls' = calls - 1
    /\ LET a == append_cmd(Zeros, ReqBytes(n), code)
       IN  IF a.ok
           THEN /\ buffer' = [buffer EXCEPT ![c] = prepend_headers(a.buf, dst, a.sz)]
                /\ request_sz' = [request_sz EXCEPT ![c] = a.sz]
                /\ pc' = [pc EXCEPT ![c] = "lock"]
                /\ result' = [result EXCEPT ![c] = NoResult]
                /\ reply' = [reply EXCEPT ![c] = NoReply]
           ELSE /\ buffer' = [buffer EXCEPT ![c] = a.buf]
                /\ pc' = [pc EXCEPT ![c] = "idle"]
                /\ result' = [result EXCEPT ![c] = Err("SerializationError")]
                /\ reply' = [reply EXCEPT ![c] =
                       match_response(<<dst, code, n, op>>, Err("SerializationError"))]
                /\ UNCHANGED request_sz
    /\ request' = [request EXCEPT ![c] = <<dst, code, n, op>>]
    /\ myReq' = [myReq EXCEPT ![c] = 0]
    /\ UNCHANGED <<response_buf, offset, cmd_code, packet, nread, lock, poisoned,
                   input, wire, peer, requests, menu, clean, stale, discarded>>
    /\ ops' = [ops EXCEPT ![c] = <<>>]
    /\ UNCHANGED ui

\* line 124: self.port.lock().expect(..): blocks while the mutex is held;
\* a poisoned mutex makes expect panic (the guard inside the error is dropped)
AcquireWithoutWaiting(c) ==
    /\ pc[c] = "lock"
    /\ pc' = [pc EXCEPT ![c] = "clear"]
    /\ lock' = c
    /\ UNCHANGED <<result, reply, locals, poisoned, input, wire, peer, calls, requests, menu,
                   myReq, clean, stale, discarded>>
    /\ UNCHANGED ops
    /\ UNCHANGED ui

Acquire(c) ==
    /\ pc[c] = "lock"
    /\ lock = 0
    /\ IF poisoned
       THEN /\ pc' = [pc EXCEPT ![c] = "panicked"]
            /\ result' = [result EXCEPT ![c] = Err("PoisonPanic")]
            /\ reply' = [reply EXCEPT ![c] = NoReply]
            /\ lock' = 0
            /\ UNCHANGED locals
       ELSE /\ pc' = [pc EXCEPT ![c] = "clear"]
            /\ lock' = c
            /\ UNCHANGED <<result, reply, locals>>
    /\ UNCHANGED <<poisoned, input, wire, peer, calls, requests, menu, myReq, clean, stale, discarded>>
    /\ UNCHANGED ops
    /\ UNCHANGED ui

clear_nothing(inp) == inp

\* SerialPort::clear(ClearBuffer::Input)
clear(inp) == <<>>

\* lines 129-130
ClearOk(c) ==
    /\ pc[c] = "clear"
    /\ input' = clear(input)
    /\ discarded' = Len(input) - Len(input')
    /\ stale' = Min(stale, Len(input'))
    /\ pc' = [pc EXCEPT ![c] = "write"]
    /\ UNCHANGED <<locals, result, reply, lock, poisoned, wire, peer, calls, requests, menu, myReq, clean>>
    /\ Did(c, "clear")
    /\ UNCHANGED ui

IoErrRetry(c) ==
    /\ pc[c] \in {"clear", "write", "flush"}
    /\ pc' = [pc EXCEPT ![c] = "write"]
    /\ UNCHANGED <<locals, result, reply, lock, poisoned, stale>>
    /\ UNCHANGED <<input, wire, peer, calls, requests, menu, myReq, clean, discarded>>
    /\ Did(c, pc[c])
    /\ UNCHANGED ui

\* an I/O error of clear, write_all or flush (lines 130, 132, 133)
IoErr(c) ==
    /\ pc[c] \in {"clear", "write", "flush"}
    /\ Return(c, Err("SerialError"))
    /\ stale' = Len(input)
    /\ UNCHANGED <<input, wire, peer, calls, requests, menu, myReq, clean, discarded>>
    /\ UNCHANGED ui

WriteOkClearingAgain(c) ==
    /\ pc[c] = "write"
    /\ wire' = Append(wire, Slice(buffer[c], 0, HEADER_SZ + request_sz[c]))
    /\ myReq' = [myReq EXCEPT ![c] = Len(wire) + 1]
    /\ clean' = [clean EXCEPT ![c] =
                   input = <<>> /\ peerRest = <<>> /\ peerDone = Len(wire)]
    /\ pc' = [pc EXCEPT ![c] = "flush"]
    /\ input' = clear(input)
    /\ UNCHANGED <<locals, result, reply, lock, poisoned, peer, calls, requests, menu,
                   stale, discarded>>
    /\ ops' = [ops EXCEPT ![c] = @ \o <<"write", "clear">>]
    /\ UNCHANGED ui

\* lines 131-132: write_all(&buffer[..HEADER_SZ + request_sz])
WriteOk(c) ==
    /\ pc[c] = "write"
    /\ wire' = Append(wire, Slice(buffer[c], 0, HEADER_SZ + request_sz[c]))
    /\ myReq' = [myReq EXCEPT ![c] = Len(wire) + 1]
    /\ clean' = [clean EXCEPT ![c] =
                   input = <<>> /\ peerRest = <<>> /\ peerDone = Len(wire)]
    /\ pc' = [pc EXCEPT ![c] = "flush"]
    /\ UNCHANGED <<locals, result, reply, lock, poisoned, input, peer, calls, requests, menu,
                   stale, discarded>>
    /\ Did(c, "write")
    /\ UNCHANGED ui

FlushOkKeeping(c) ==
    /\ pc[c] = "flush"
    /\ nread' = [nread EXCEPT ![c] = 0]
    /\ pc' = [pc EXCEPT ![c] = "readhdr"]
    /\ UNCHANGED <<request, buffer, request_sz, packet, result, reply, lock, poisoned, input, wire,
                   peer, calls, requests, menu, myReq, clean, stale, discarded,
                   response_buf, offset, cmd_code>>
    /\ Did(c, "flush")
    /\ UNCHANGED ui

\* lines 133-138: flush, then the fresh reassembly state
FlushOk(c) ==
    /\ pc[c] = "flush"
    /\ response_buf' = [response_buf EXCEPT ![c] = Zeros]
    /\ offset' = [offset EXCEPT ![c] = 0]
    /\ cmd_code' = [cmd_code EXCEPT ![c] = 0]
    /\ nread' = [nread EXCEPT ![c] = 0]
    /\ pc' = [pc EXCEPT ![c] = "readhdr"]
    /\ UNCHANGED <<request, buffer, request_sz, packet, result, reply, lock, poisoned, input, wire,
                   peer, calls, requests, menu, myReq, clean, stale, discarded>>
    /\ Did(c, "flush")
    /\ UNCHANGED ui

\* read_exact(&mut buf[at..at + n]) when the n bytes are there
read_into(buf, at, n, inp) == Put(buf, at, SubSeq(inp, 1, n))

\* lines 141-143: a fresh packet buffer, then the 4-byte header
ReadHeaderOk(c) ==
    /\ pc[c] = "readhdr"
    /\ Len(input) >= SMBUS_HEADER_SZ
    /\ packet' = [packet EXCEPT ![c] = read_into(Zeros, 0, SMBUS_HEADER_SZ, input)]
    /\ input' = Drop(input, SMBUS_HEADER_SZ)
    /\ stale' = Min(stale, Len(input'))
    /\ pc' = [pc EXCEPT ![c] = "chklen"]
    /\ UNCHANGED <<request, buffer, request_sz, response_buf, offset, cmd_code,
                   nread, result, reply,
                   lock, poisoned, wire, peer, calls, requests, menu, myReq, clean, discarded>>
    /\ Did(c, "read")
    /\ UNCHANGED ui

\* the number of bytes read_exact still waits for at this position
Wanted(c) ==
    IF pc[c] = "readhdr" THEN SMBUS_HEADER_SZ ELSE At(packet[c], SMBUS_LEN_IDX)

ReadErrIgnored(c, timeout) ==
    /\ pc[c] \in {"readhdr", "readrest"}
    /\ timeout => Len(input) < Wanted(c)
    /\ input' = IF timeout THEN <<>> ELSE input
    /\ pc' = [pc EXCEPT ![c] = "deser"]
    /\ stale' = Min(stale, Len(input'))
    /\ UNCHANGED <<locals, result, reply, lock, poisoned, wire, peer, calls, requests,
                   menu, myReq, clean, discarded>>
    /\ Did(c, "read")
    /\ UNCHANGED ui

\* lines 143 and 156: read_exact fails: the bytes did not come within
\* READ_TIMEOUT (what had come is consumed), or the device reported an error
ReadErr(c, timeout) ==
    /\ pc[c] \in {"readhdr", "readrest"}
    /\ timeout => Len(input) < Wanted(c)
    /\ input' = IF timeout THEN <<>> ELSE input
    /\ Return(c, Err("SerialError"))
    /\ stale' = Len(input')
    /\ UNCHANGED <<wire, peer, calls, requests, menu, myReq, clean, discarded>>
    /\ UNCHANGED ui

valid_len_off_by_one(len) == len >= MCTP_HEADER_SZ /\ len <= MCTP_MAX_PACKET_LEN + 1

\* line 147: (MCTP_HEADER_SZ..=MCTP_MAX_PACKET_LEN).contains(&len)
valid_len(len) == len >= MCTP_HEADER_SZ /\ len <= MCTP_MAX_PACKET_LEN

\* lines 146-154: the sanity check of the length byte and the packet slice
CheckLen(c) ==
    /\ pc[c] = "chklen"
    /\ LET len == At(packet[c], SMBUS_LEN_IDX)
       IN  IF ~valid_len(len)
           THEN /\ Return(c, Err("InvalidLength"))
                /\ stale' = Len(input)
           ELSE IF SMBUS_HEADER_SZ + len > BUFFER_SZ
           THEN /\ Return(c, Err("DoesNotFit"))
                /\ stale' = Len(input)
           ELSE /\ pc' = [pc EXCEPT ![c] = "readrest"]
                /\ UNCHANGED <<locals, result, reply, lock, poisoned, stale, ops>>
    /\ UNCHANGED <<input, wire, peer, calls, requests, menu, myReq, clean, discarded>>
    /\ UNCHANGED ui

ReadRestOkRequiringSom(c) ==
    /\ pc[c] = "readrest"
    /\ LET len == At(packet[c], SMBUS_LEN_IDX)
           read == read_into(packet[c], SMBUS_HEADER_SZ, len, input)
       IN  /\ Len(input) >= len
           /\ input' = Drop(input, len)
           /\ IF nread[c] = 0 /\ ~SOM(At(read, MCTP_FLAGS_IDX))
              THEN /\ Return(c, Err("InvalidLength"))
                   /\ stale' = Len(input')
              ELSE /\ packet' = [packet EXCEPT ![c] = read]
                   /\ stale' = Min(stale, Len(input'))
                   /\ pc' = [pc EXCEPT ![c] = "process"]
                   /\ Did(c, "read")
                   /\ UNCHANGED <<request, buffer, request_sz, response_buf, offset,
                                  cmd_code, nread, result, reply, lock, poisoned>>
    /\ UNCHANGED <<wire, peer, calls, requests, menu, myReq, clean, discarded>>
    /\ UNCHANGED ui

\* lines 155-156
ReadRestOk(c) ==
    /\ pc[c] = "readrest"
    /\ LET len == At(packet[c], SMBUS_LEN_IDX)
       IN  /\ Len(input) >= len
           /\ packet' = [packet EXCEPT ![c] = read_into(@, SMBUS_HEADER_SZ, len, input)]
           /\ input' = Drop(input, len)
    /\ stale' = Min(stale, Len(input'))
    /\ pc' = [pc EXCEPT ![c] = "process"]
    /\ UNCHANGED <<request, buffer, request_sz, response_buf, offset, cmd_code,
                   nread, result, reply,
                   lock, poisoned, wire, peer, calls, requests, menu, myReq, clean, discarded>>
    /\ Did(c, "read")
    /\ UNCHANGED ui

is_som_low_bit(flags) == flags % 2 = 1

\* line 161: flags & 0x80 != 0
is_som(flags) == (flags \div 128) % 2 = 1

is_eom_wrong_bit(flags) == (flags \div 32) % 2 = 1

\* line 179: flags & 0x40 != 0
is_eom(flags) == (flags \div 64) % 2 = 1

payload_start_idx_always_som(flags) == HEADER_SZ + CMD_CODE_SZ

\* lines 161-170
payload_start_idx(flags) ==
    IF is_som(flags) THEN HEADER_SZ + CMD_CODE_SZ ELSE SMBUS_HEADER_SZ + MCTP_HEADER_SZ

ProcessNotAdvancing(c) ==
    /\ pc[c] = "process"
    /\ LET flags == At(packet[c], MCTP_FLAGS_IDX)
           len == At(packet[c], SMBUS_LEN_IDX)
           start == payload_start_idx(flags)
           end == SMBUS_HEADER_SZ + len
           dlen == end - start
       IN  IF start > end \/ offset[c] + dlen > BUFFER_SZ
           THEN Panic(c) /\ stale' = Len(input)
           ELSE /\ cmd_code' = [cmd_code EXCEPT ![c] =
                      IF is_som(flags)
                      THEN from_be_bytes(Slice(packet[c], HEADER_SZ, HEADER_SZ + CMD_CODE_SZ))
                      ELSE @]
                /\ response_buf' = [response_buf EXCEPT ![c] =
                      Put(@, offset[c], Slice(packet[c], start, end))]
                /\ offset' = [offset EXCEPT ![c] = dlen]
                /\ nread' = [nread EXCEPT ![c] = Min(@ + 1, MaxRead)]
                /\ pc' = [pc EXCEPT ![c] = IF is_eom(flags) THEN "deser" ELSE "readhdr"]
                /\ UNCHANGED <<request, buffer, request_sz, packet, result, reply, lock,
                               poisoned, stale, ops>>
    /\ UNCHANGED <<input, wire, peer, calls, requests, menu, myReq, clean, discarded>>
    /\ UNCHANGED ui

\* lines 158-182: flags, discriminant, copy of the payload slice, EOM test.
\* buffer[a..b] panics when a > b, and response_buf[offset..offset + len]
\* panics when it ends beyond the buffer.
Process(c) ==
    /\ pc[c] = "process"
    /\ LET flags == At(packet[c], MCTP_FLAGS_IDX)
           len == At(packet[c], SMBUS_LEN_IDX)
           start == payload_start_idx(flags)
           end == SMBUS_HEADER_SZ + len
           dlen == end - start
       IN  IF start > end \/ offset[c] + dlen > BUFFER_SZ
           THEN Panic(c) /\ stale' = Len(input)
           ELSE /\ cmd_code' = [cmd_code EXCEPT ![c] =
                      IF is_som(flags)
                      THEN from_be_bytes(Slice(packet[c], HEADER_SZ, HEADER_SZ + CMD_CODE_SZ))
                      ELSE @]
                /\ response_buf' = [response_buf EXCEPT ![c] =
                      Put(@, offset[c], Slice(packet[c], start, end))]
                /\ offset' = [offset EXCEPT ![c] = @ + dlen]
                /\ nread' = [nread EXCEPT ![c] = Min(@ + 1, MaxRead)]
                /\ pc' = [pc EXCEPT ![c] = IF is_eom(flags) THEN "deser" ELSE "readhdr"]
                /\ UNCHANGED <<request, buffer, request_sz, packet, result, reply, lock,
                               poisoned, stale, ops>>
    /\ UNCHANGED <<input, wire, peer, calls, requests, menu, myReq, clean, discarded>>
    /\ UNCHANGED ui

\* line 184: RESP::deserialize(cmd_code, &response_buf); the message
\* definition accepts the bytes or rejects them
Deserialize(c, accepted) ==
    /\ pc[c] = "deser"
    /\ Return(c, IF accepted
                 THEN [kind |-> "Ok", cmd_code |-> cmd_code[c],
                       response_buf |-> response_buf[c], offset |-> offset[c]]
                 ELSE Err("DeserializationError"))
    /\ stale' = Len(input)
    /\ UNCHANGED <<input, wire, peer, calls, requests, menu, myReq, clean, discarded>>
    /\ UNCHANGED ui

\* --------------------------------------------------------------------- peer
\* The peer answers the frames in the order they were written.  The logical
\* payload of its answer to frame r is PeerPayload(r, 0), PeerPayload(r, 1), ..
PeerPayload(r, k) == ((k + 64 * r) % 255) + 1

\* payload bytes a packet with this length byte and these flags carries
PayloadLen(len, flags) ==
    LET start == IF SOM(flags) THEN 13 ELSE 9
    IN  IF 4 + len > start THEN 4 + len - start ELSE 0

\* one packet of the answer to frame r, carrying the payload from `off` on:
\* 4 header bytes plus `len` bytes, laid out as the read loop parses them
PeerPacket(r, off, len, flags) ==
    [i \in 1..(SMBUS_HEADER_SZ + len) |->
        LET j == i - 1
        IN  CASE j = 0 -> 2
              [] j = 1 -> 15
              [] j = SMBUS_LEN_IDX -> len
              [] j = 3 -> 1
              [] j = 4 -> 1
              [] j = 5 -> 128
              [] j = 6 -> At(wire[r], 5)
              [] j = MCTP_FLAGS_IDX -> flags
              [] j = 8 -> 125
              [] OTHER ->
                   IF SOM(flags)
                   THEN CASE j = 9 -> 2
                          [] j = 10 -> At(wire[r], 5)
                          [] j = 11 -> At(wire[r], 11)
                          [] j = 12 -> At(wire[r], 12)
                          [] OTHER -> PeerPayload(r, off + (j - 13))
                   ELSE PeerPayload(r, off + (j - 9))]

\* The peer puts one packet on the link: the 4-byte header arrives first,
\* the remainder in a later step.  The link is paced: the next packet comes
\* when the input buffer is empty.
PeerSend(len, flags) ==
    /\ peerRest = <<>>
    /\ input = <<>>
    /\ peerDone < Len(wire)
    /\ \/ /\ nPackets > 0
          /\ <<len, flags>> \in menu
          /\ nPackets' = nPackets - 1
          /\ nFill' = nFill
       \/ /\ nFill > 0
          /\ len = MCTP_MAX_PACKET_LEN /\ ~SOM(flags) /\ ~EOM(flags)
          /\ nFill' = nFill - 1
          /\ nPackets' = nPackets
    /\ LET r == peerDone + 1
           pkt == PeerPacket(r, peerOff, len, flags)
       IN  /\ input' = input \o SubSeq(pkt, 1, SMBUS_HEADER_SZ)
           /\ peerRest' = Drop(pkt, SMBUS_HEADER_SZ)
           /\ peerOff' = IF EOM(flags) THEN 0 ELSE peerOff + PayloadLen(len, flags)
           /\ peerDone' = IF EOM(flags) THEN r ELSE peerDone
           /\ sent' = Append(sent, <<r, len, flags>>)
    /\ UNCHANGED <<pc, locals, result, reply, lock, poisoned, wire, calls, requests, menu,
                   myReq, clean, stale, discarded>>
    /\ UNCHANGED ops
    /\ UNCHANGED ui

\* the remainder of the packet arrives
PeerRest ==
    /\ peerRest # <<>>
    /\ input' = input \o peerRest
    /\ peerRest' = <<>>
    /\ UNCHANGED <<pc, locals, result, reply, lock, poisoned, wire, peerDone, peerOff,
                   nPackets, nFill, sent, calls, requests, menu, myReq, clean, stale, discarded>>
    /\ UNCHANGED ops
    /\ UNCHANGED ui

\* The streaming peer: one more packet of the run's menu, EOM clear, whenever
\* the previous one has been read; these packets are not logged.
PeerStream(len, flags) ==
    /\ peerRest = <<>>
    /\ input = <<>>
    /\ peerDone < Len(wire)
    /\ <<len, flags>> \in menu
    /\ ~EOM(flags)
    /\ LET pkt == PeerPacket(peerDone + 1, peerOff, len, flags)
       IN  /\ input' = input \o SubSeq(pkt, 1, SMBUS_HEADER_SZ)
           /\ peerRest' = Drop(pkt, SMBUS_HEADER_SZ)
           /\ peerOff' = peerOff + PayloadLen(len, flags)
    /\ UNCHANGED <<pc, locals, result, reply, lock, poisoned, wire, peerDone, nPackets,
                   nFill, sent, calls, requests, menu, myReq, clean, stale, discarded>>
    /\ UNCHANGED ops
    /\ UNCHANGED ui

\* ------------------------------------------------------------ specification
Next ==
    \/ \E c \in Callers, op \in Operations, code \in Discriminants,
          n \in PayloadSizes : Call(c, FacadeDst(op), code, n, op)
    \/ \E c \in Callers : Acquire(c)
    \/ \E c \in Callers : ClearOk(c)
    \/ \E c \in Callers : IoErr(c)
    \/ \E c \in Callers : WriteOk(c)
    \/ \E c \in Callers : FlushOk(c)
    \/ \E c \in Callers : ReadHeaderOk(c)
    \/ \E c \in Callers, timeout \in BOOLEAN : ReadErr(c, timeout)
    \/ \E c \in Callers : CheckLen(c)
    \/ \E c \in Callers : ReadRestOk(c)
    \/ \E c \in Callers : Process(c)
    \/ \E c \in Callers, accepted \in BOOLEAN : Deserialize(c, accepted)
    \/ \E len \in LenBytes, flags \in FlagBytes : PeerSend(len, flags)
    \/ PeerRest

Spec == Init /\ [][Next]_vars

\* a step of the exchange of caller c: each channel operation completes or
\* fails, and a read whose bytes do not come times out
ExchangeStep(c) ==
    \/ ClearOk(c) \/ IoErr(c) \/ WriteOk(c) \/ FlushOk(c)
    \/ ReadHeaderOk(c) \/ ReadRestOk(c)
    \/ \E timeout \in BOOLEAN : ReadErr(c, timeout)
    \/ CheckLen(c) \/ Process(c)
    \/ \E accepted \in BOOLEAN : Deserialize(c, accepted)

\* the runs of two calls answered with up to MaxPackets packets in which a
\* thread inside an exchange keeps running
FairInit ==
    Start([calls |-> 2, packets |-> MaxPackets, fills |-> 0,
           requests |-> OneRequest, menu |-> LinkMenu])

FairSpec ==
    FairInit /\ [][Next]_vars /\ \A c \in Callers : WF_vars(ExchangeStep(c))

\* the runs in which no channel operation fails and every read gets its bytes
\* within READ_TIMEOUT from a peer that streams packets without EOM
StreamInit == \E s \in StreamScenarios : Start(s)

StreamNext ==
    \/ \E c \in Callers, op \in Operations, code \in Discriminants,
          n \in PayloadSizes : Call(c, FacadeDst(op), code, n, op)
    \/ \E c \in Callers : Acquire(c)
    \/ \E c \in Callers : ClearOk(c)
    \/ \E c \in Callers : WriteOk(c)
    \/ \E c \in Callers : FlushOk(c)
    \/ \E c \in Callers : ReadHeaderOk(c)
    \/ \E c \in Callers : CheckLen(c)
    \/ \E c \in Callers : ReadRestOk(c)
    \/ \E c \in Callers : Process(c)
    \/ \E len \in LenBytes \cup {9}, flags \in FlagBytes : PeerStream(len, flags)
    \/ PeerRest

StreamSpec == StreamInit /\ [][StreamNext]_vars

\* ---------------------------------------------------------------- Source
\* a call of a method of the source (lib.rs, trait Source): the method, its
\* argument and what the source returned
Ask(source, method, arg) ==
    [method |-> method, arg |-> arg, res |-> source[method][arg]]

\* what a source may answer to the calls of one Rtc::update
RtcSources ==
    [get_capabilities : [{0} -> Results(1..MaxStamp)],
     get_real_time : [{0} -> Results(1..MaxStamp)],
     get_timer_value : [AcpiTimerId -> Results({1})],
     get_expired_timer_wake_policy : [AcpiTimerId -> Results({1})],
     get_wake_status : [AcpiTimerId -> Results({1})]]

\* ------------------------------------------------------------------- Rtc
\* RtcTimer::update: the three results replace the stored ones
RtcTimer_update(self, source) ==
    LET value == Ask(source, "get_timer_value", self.timer_id)
        wake_policy == Ask(source, "get_expired_timer_wake_policy", self.timer_id)
        timer_status == Ask(source, "get_wake_status", self.timer_id)
    IN  [self |-> [self EXCEPT !.value = value.res,
                               !.wake_policy = wake_policy.res,
                               !.timer_status = timer_status.res],
         calls |-> <<value, wake_policy, timer_status>>]

Rtc_update_refetching(self, source) ==
    LET capabilities == <<Ask(source, "get_capabilities", 0)>>
        timestamp == Ask(source, "get_real_time", 0)
        ac == RtcTimer_update(self.timers[0], source)
        dc == RtcTimer_update(self.timers[1], source)
    IN  [self |-> [capabilities |-> capabilities[1].res,
                   timestamp |-> timestamp.res,
                   timers |-> [id \in AcpiTimerId |-> IF id = 0 THEN ac.self ELSE dc.self]],
         calls |-> capabilities \o <<timestamp>> \o ac.calls \o dc.calls]

\* Rtc::update: the capabilities are fetched only while the stored ones are
\* an error; the time stamp and both timers are fetched every time
Rtc_update(self, source) ==
    LET capabilities == IF ~self.capabilities.ok
                        THEN <<Ask(source, "get_capabilities", 0)>>
                        ELSE <<>>
        timestamp == Ask(source, "get_real_time", 0)
        ac == RtcTimer_update(self.timers[0], source)
        dc == RtcTimer_update(self.timers[1], source)
    IN  [self |-> [capabilities |-> IF capabilities # <<>>
                                    THEN capabilities[1].res
                                    ELSE self.capabilities,
                   timestamp |-> timestamp.res,
                   timers |-> [id \in AcpiTimerId |-> IF id = 0 THEN ac.self ELSE dc.self]],
         calls |-> capabilities \o <<timestamp>> \o ac.calls \o dc.calls]

\* Rtc::new: the struct literal, then one update
RtcNew(source) ==
    /\ ~built.rtc
    /\ LET u == Rtc_update(Rtc_literal, source)
       IN  /\ rtc' = u.self
           /\ last' = [handler |-> "Rtc::new", calls |-> u.calls]
    /\ built' = [built EXCEPT !.rtc = TRUE]
    /\ UNCHANGED <<battery, budget, debug, mock, serial>>

\* Module::update of Rtc, called on every tick of the application
RtcUpdate(source) ==
    /\ built.rtc
    /\ LET u == Rtc_update(rtc, source)
       IN  /\ rtc' = u.self
           /\ last' = [handler |-> "Rtc::update", calls |-> u.calls]
    /\ UNCHANGED <<battery, built, budget, debug, mock, serial>>

\* Rtc::render, the general section: healthy when both results are Ok; the
\* time line shows the time stamp or the error
Rtc_is_healthy(self) == self.capabilities.ok /\ self.timestamp.ok

\* RtcTimer::render: healthy when the three results are Ok
RtcTimer_is_healthy(self) ==
    self.value.ok /\ self.wake_policy.ok /\ self.timer_status.ok

\* format_result and the matches of Rtc::render: the value of an Ok, the
\* error text of an Err
Shown(res) == IF res.ok THEN <<"value", res.v>> ELSE <<"Error", res.msg>>

\* a link that is never used
NoLink == [calls |-> 0, packets |-> 0, fills |-> 0, requests |-> {}, menu |-> {}]

RtcInit == Start(NoLink)

RtcNext ==
    \/ \E source \in RtcSources : RtcNew(source)
    \/ \E source \in RtcSources : RtcUpdate(source)

RtcSpec == RtcInit /\ [][RtcNext]_vars

\* --------------------------------------------------------------- Battery
\* remaining capacities a source reports, design capacities a source reports
BstValues == {1, 2}

BixValues == {1}

\* the characters typed into the trip point input
Alphabet == {"1", "x"}

Digit(ch) == IF ch = "1" THEN 1 ELSE 0

IsDigit(ch) == ch = "1"

\* the texts the input may hold
Texts == UNION {[1..n -> Alphabet] : n \in 0..MaxInput}

RECURSIVE Decimal(_)
Decimal(text) ==
    IF text = <<>> THEN 0
    ELSE 10 * Decimal(SubSeq(text, 1, Len(text) - 1)) + Digit(text[Len(text)])

\* str::parse::<u32>: a non-empty text of digits whose value fits 32 bits,
\* as every text of at most 9 digits does
parse(text) ==
    IF text # <<>> /\ (\A i \in 1..Len(text) : IsDigit(text[i])) /\ Len(text) <= 9
    THEN Ok(Decimal(text))
    ELSE Failed("invalid digit")

\* the trip points a text of the input can stand for
BtpValues == {parse(text).v : text \in {t \in Texts : parse(t).ok}}

\* what a source may answer to the calls of the Battery module
BatterySources ==
    [get_bst : [{0} -> Results(BstValues)],
     get_bix : [{0} -> Results(BixValues)],
     set_btp : {[btp \in BtpValues |-> res] : res \in Results({0})}]

\* SampleBuf::insert: the newest sample is added, the oldest leaves a full buffer
SampleBuf_insert(samples, v) ==
    IF Len(samples) = MAX_SAMPLES THEN Append(Tail(samples), v) ELSE Append(samples, v)

update_graph_every_second(t_sec) == TRUE

\* line 123, the build without the mock feature
update_graph(t_sec) == t_sec % 60 = 0

Battery_update_forgetting(self, source) ==
    LET bst == Ask(source, "get_bst", 0)
        fetched == IF bst.res.ok
                   THEN [self EXCEPT !.bst_data = bst.res.v, !.state.bst_success = TRUE]
                   ELSE [self EXCEPT !.bst_data = 0, !.state.bst_success = FALSE]
        ticked == [fetched EXCEPT !.t_sec = @ + 1]
    IN  [self |-> IF update_graph(self.t_sec)
                  THEN [ticked EXCEPT !.state.samples = SampleBuf_insert(@, fetched.bst_data),
                                      !.t_min = @ + 1]
                  ELSE ticked,
         calls |-> <<bst>>]

\* Battery::update: a fetched status replaces bst_data, a failed fetch leaves
\* it; then the tick and, once a minute, the sample
Battery_update(self, source) ==
    LET bst == Ask(source, "get_bst", 0)
        fetched == IF bst.res.ok
                   THEN [self EXCEPT !.bst_data = bst.res.v, !.state.bst_success = TRUE]
                   ELSE [self EXCEPT !.state.bst_success = FALSE]
        ticked == [fetched EXCEPT !.t_sec = @ + 1]
    IN  [self |-> IF update_graph(self.t_sec)
                  THEN [ticked EXCEPT !.state.samples = SampleBuf_insert(@, fetched.bst_data),
                                      !.t_min = @ + 1]
                  ELSE ticked,
         calls |-> <<bst>>]

\* Battery::new after the struct literal: get_bix once, then one update
Battery_new(source) ==
    LET bix == Ask(source, "get_bix", 0)
        read == IF bix.res.ok
                THEN [Battery_literal EXCEPT !.bix_data = bix.res.v, !.state.bix_success = TRUE]
                ELSE [Battery_literal EXCEPT !.state.bix_success = FALSE]
        u == Battery_update(read, source)
    IN  [self |-> u.self, calls |-> <<bix>> \o u.calls]

\* the events of the terminal that reach the module
Events ==
    {[code |-> "Enter", kind |-> "Press"], [code |-> "Enter", kind |-> "Release"]}
        \cup {[code |-> ch, kind |-> "Press"] : ch \in Alphabet}

\* Input::handle_event: a pressed character is added to the text
Input_handle_event(text, evt) ==
    IF evt.kind = "Press" /\ evt.code \in Alphabet /\ Len(text) < MaxInput
    THEN Append(text, evt.code)
    ELSE text

Battery_handle_event_keeping_rejected(self, evt, source) ==
    IF evt.code = "Enter" /\ evt.kind = "Press"
    THEN LET btp == parse(self.state.btp_input)
             reset == [self EXCEPT !.state.btp_input = <<>>]
         IN  IF btp.ok
             THEN LET set == Ask(source, "set_btp", btp.v)
                  IN  [self |-> [reset EXCEPT !.state.btp = btp.v,
                                              !.state.btp_success = set.res.ok],
                       calls |-> <<set>>]
             ELSE [self |-> reset, calls |-> <<>>]
    ELSE [self |-> [self EXCEPT !.state.btp_input = Input_handle_event(@, evt)],
          calls |-> <<>>]

\* Battery::handle_event: Enter takes and resets the input and, when it
\* parses, sets the trip point; any other event goes to the input
Battery_handle_event(self, evt, source) ==
    IF evt.code = "Enter" /\ evt.kind = "Press"
    THEN LET btp == parse(self.state.btp_input)
             reset == [self EXCEPT !.state.btp_input = <<>>]
         IN  IF btp.ok
             THEN LET set == Ask(source, "set_btp", btp.v)
                  IN  [self |-> IF set.res.ok
                                THEN [reset EXCEPT !.state.btp = btp.v,
                                                   !.state.btp_success = TRUE]
                                ELSE [reset EXCEPT !.state.btp_success = FALSE],
                       calls |-> <<set>>]
             ELSE [self |-> reset, calls |-> <<>>]
    ELSE [self |-> [self EXCEPT !.state.btp_input = Input_handle_event(@, evt)],
          calls |-> <<>>]

BatteryNew(source) ==
    /\ ~built.battery
    /\ LET n == Battery_new(source)
       IN  /\ battery' = n.self
           /\ last' = [handler |-> "Battery::new", calls |-> n.calls]
    /\ built' = [built EXCEPT !.battery = TRUE]
    /\ UNCHANGED <<rtc, budget, debug, mock, serial>>

BatteryUpdateRereadingBix(source) ==
    /\ built.battery
    /\ battery.t_sec < budget.ticks
    /\ LET u == Battery_update(battery, source)
           bix == Ask(source, "get_bix", 0)
       IN  /\ battery' = IF bix.res.ok
                         THEN [u.self EXCEPT !.bix_data = bix.res.v, !.state.bix_success = TRUE]
                         ELSE [u.self EXCEPT !.state.bix_success = FALSE]
           /\ last' = [handler |-> "Battery::update", calls |-> u.calls \o <<bix>>]
    /\ UNCHANGED <<rtc, built, budget, debug, mock, serial>>

\* Module::update of Battery, called on every tick of the application
BatteryUpdate(source) ==
    /\ built.battery
    /\ battery.t_sec < budget.ticks
    /\ LET u == Battery_update(battery, source)
       IN  /\ battery' = u.self
           /\ last' = [handler |-> "Battery::update", calls |-> u.calls]
    /\ UNCHANGED <<rtc, built, budget, debug, mock, serial>>

\* Module::handle_event of Battery
BatteryEvent(evt, source) ==
    /\ built.battery
    /\ budget.events
    /\ LET h == Battery_handle_event(battery, evt, source)
       IN  /\ battery' = h.self
           /\ last' = [handler |-> "Battery::handle_event", calls |-> h.calls]
    /\ UNCHANGED <<rtc, built, budget, debug, mock, serial>>

\* the runs of the Battery module: a few ticks with key events, or the ticks
\* of a minute without them
BatteryScenarios ==
    { [calls |-> 0, packets |-> 0, fills |-> 0, requests |-> {}, menu |-> {},
       ticks |-> MaxTicks, events |-> TRUE],
      [calls |-> 0, packets |-> 0, fills |-> 0, requests |-> {}, menu |-> {},
       ticks |-> MaxLongTicks, events |-> FALSE] }

BatteryInit == \E s \in BatteryScenarios : Start(s)

BatteryNext ==
    \/ \E source \in BatterySources : BatteryNew(source)
    \/ \E source \in BatterySources : BatteryUpdate(source)
    \/ \E evt \in Events, source \in BatterySources : BatteryEvent(evt, source)

BatterySpec == BatteryInit /\ [][BatteryNext]_vars

\* the formatted lengths of log lines and the columns of the inner area of
\* the log pane
LineLens == {1}
Widths == {0, 1}

\* what DefmtDecoder::read_log makes of the bytes received: a frame of some
\* lines (frame2lines gives at least one), whose longest line has `len`
\* characters, an unexpected end of the stream, or a malformed packet
Frames ==
    {[kind |-> "frame", lines |-> n, len |-> l] : n \in 1..MaxFrame, l \in LineLens}
        \cup {[kind |-> "eof", lines |-> 0, len |-> 0],
              [kind |-> "malformed", lines |-> 0, len |-> 0]}

\* the value of a result that carries an error
NoFrame == [kind |-> "none", lines |-> 0, len |-> 0]

\* what a source may answer to the calls of the Debug module; the bytes of
\* get_dbg_data stand as the frame the decoder reads from them
DebugSources ==
    [get_dbg_data : [{0} -> {[ok |-> TRUE, v |-> f, msg |-> ""] : f \in Frames}
                               \cup {[ok |-> FALSE, v |-> NoFrame, msg |-> SOURCE_ERROR]}],
     send_dbg_cmd : {[cmd \in Texts |-> res] : res \in Results({0})}]

\* Debug::update_logs: the lines of a full frame are cached and the longest
\* length kept, a malformed packet is cached as one line, an unexpected end
\* adds nothing; returns the number of lines inserted
Debug_update_logs(self, frame) ==
    IF frame.kind = "frame"
    THEN [self |-> [self EXCEPT !.max_log_len = Max(@, frame.len),
                                !.logs = @ + frame.lines],
          lines |-> frame.lines]
    ELSE IF frame.kind = "malformed"
    THEN [self |-> [self EXCEPT !.logs = @ + 1], lines |-> 1]
    ELSE [self |-> self, lines |-> 0]

\* Debug::update_scroll: when the logs exceed the visible height and the
\* position is `height - new_lines`, the position becomes `height`. The
\* subtraction is on usize: when new_lines > height a build with overflow
\* checks panics, and one without gets a wrapped difference no position
\* equals
Debug_update_scroll(self, new_lines, overflow_checks) ==
    IF self.logs > self.y_scroll.length
    THEN LET height == self.logs - self.y_scroll.length
             evaluated == [self EXCEPT !.sub = [evaluated |-> TRUE, height |-> height,
                                                new_lines |-> new_lines]]
         IN  IF new_lines > height
             THEN IF overflow_checks
                  THEN [evaluated EXCEPT !.panicked = TRUE]
                  ELSE evaluated
             ELSE IF self.y_scroll.pos = height - new_lines
                  THEN [evaluated EXCEPT !.y_scroll.pos = height]
                  ELSE evaluated
    ELSE [self EXCEPT !.sub = NoSub]

\* Module::update of Debug: without a decoder nothing; otherwise the data is
\* fetched (unwrap panics on an error), decoded, cached, and the scroll
\* state follows
Debug_update(self, source, overflow_checks) ==
    IF ~self.decoder
    THEN [self |-> self, calls |-> <<>>]
    ELSE LET raw == Ask(source, "get_dbg_data", 0)
         IN  IF ~raw.res.ok
             THEN [self |-> [self EXCEPT !.panicked = TRUE, !.sub = NoSub],
                   calls |-> <<raw>>]
             ELSE LET cached == Debug_update_logs(self, raw.res.v)
                  IN  [self |-> Debug_update_scroll(cached.self, cached.lines,
                                                    overflow_checks),
                       calls |-> <<raw>>]

scroll_up(self) == [self EXCEPT !.y_scroll.pos = Max(@ - 1, 0)]

scroll_down(self) ==
    IF self.logs > self.y_scroll.length
    THEN [self EXCEPT !.y_scroll.pos = Min(@ + 1, self.logs - self.y_scroll.length)]
    ELSE self

scroll_left(self) == [self EXCEPT !.x_scroll.pos = Max(@ - 1, 0)]

scroll_right(self) ==
    IF self.max_log_len > self.x_scroll.length
    THEN [self EXCEPT !.x_scroll.pos = Min(@ + 1, self.max_log_len - self.x_scroll.length)]
    ELSE self

\* the key events that reach the Debug module
DebugEvents ==
    {[code |-> code, kind |-> "Press"] :
         code \in {"Up", "Down", "Left", "Right", "Enter", "1"}}
        \cup {[code |-> "Down", kind |-> "Release"]}

\* Debug::handle_event: pressed arrows scroll, Enter sends the typed command
\* and ignores the result, other pressed keys go to the input
Debug_handle_event(self, evt, source) ==
    IF evt.kind # "Press" THEN [self |-> self, calls |-> <<>>]
    ELSE IF evt.code = "Up" THEN [self |-> scroll_up(self), calls |-> <<>>]
    ELSE IF evt.code = "Down" THEN [self |-> scroll_down(self), calls |-> <<>>]
    ELSE IF evt.code = "Left" THEN [self |-> scroll_left(self), calls |-> <<>>]
    ELSE IF evt.code = "Right" THEN [self |-> scroll_right(self), calls |-> <<>>]
    ELSE IF evt.code = "Enter"
    THEN [self |-> [self EXCEPT !.input = <<>>],
          calls |-> <<Ask(source, "send_dbg_cmd", self.input)>>]
    ELSE [self |-> [self EXCEPT !.input = Input_handle_event(@, evt)], calls |-> <<>>]

\* Debug::render_logs: the inner area of the log pane gives the two lengths
render_logs(self, height, width) ==
    [self EXCEPT !.y_scroll.length = height, !.x_scroll.length = width]

\* a handler that does not run update_scroll evaluates no subtraction
Unscrolled(self) == [self EXCEPT !.sub = NoSub]

\* Debug::new, with or without an ELF file
DebugNew(decoder) ==
    /\ ~built.debug
    /\ debug' = Debug_new(decoder)
    /\ built' = [built EXCEPT !.debug = TRUE]
    /\ last' = [handler |-> "Debug::new", calls |-> <<>>]
    /\ UNCHANGED <<rtc, battery, budget, mock, serial>>

\* Module::update of Debug, called on every tick of the application
DebugUpdate(source, overflow_checks) ==
    /\ built.debug
    /\ ~debug.panicked
    /\ LET u == Debug_update(debug, source, overflow_checks)
       IN  /\ u.self.logs <= MaxLogs
           /\ debug' = u.self
           /\ last' = [handler |-> "Debug::update", calls |-> u.calls]
    /\ UNCHANGED <<rtc, battery, built, budget, mock, serial>>

\* Module::render of Debug in a terminal whose log pane has the given inner
\* area; the logs are rendered only with a decoder
DebugRender(height, width) ==
    /\ built.debug
    /\ ~debug.panicked
    /\ debug' = Unscrolled(IF debug.decoder THEN render_logs(debug, height, width)
                            ELSE debug)
    /\ last' = [handler |-> "Debug::render", calls |-> <<>>]
    /\ UNCHANGED <<rtc, battery, built, budget, mock, serial>>

\* Module::handle_event of Debug
DebugEvent(evt, source) ==
    /\ built.debug
    /\ ~debug.panicked
    /\ LET h == Debug_handle_event(debug, evt, source)
       IN  /\ debug' = Unscrolled(h.self)
           /\ last' = [handler |-> "Debug::handle_event", calls |-> h.calls]
    /\ UNCHANGED <<rtc, battery, built, budget, mock, serial>>

DebugInit == Start(NoLink)

DebugNext ==
    \/ \E decoder \in BOOLEAN : DebugNew(decoder)
    \/ \E source \in DebugSources, overflow_checks \in BOOLEAN :
           DebugUpdate(source, overflow_checks)
    \/ \E height \in 0..MaxHeight, width \in Widths : DebugRender(height, width)
    \/ \E evt \in DebugEvents, source \in DebugSources : DebugEvent(evt, source)

DebugSpec == DebugInit /\ [][DebugNext]_vars

\* mock.rs lines 93 and 95
MAX_CAPACITY == 10000
RATE == 1000

Mock_get_bst_testing_old_capacity(self, overflow_checks) ==
    LET state == self.STATE
        capacity == self.CAPACITY
        res == IF state \in {1, 2} THEN Ok(capacity) ELSE Failed("Invalid BatteryState")
    IN  IF state = 2
        THEN LET new_capacity == capacity + RATE
             IN  [self |-> [self EXCEPT !.STATE = IF new_capacity > MAX_CAPACITY THEN 1 ELSE @,
                                        !.CAPACITY = Min(Max(new_capacity, 0), MAX_CAPACITY),
                                        !.sub = [evaluated |-> FALSE, capacity |-> 0]],
                  res |-> res]
        ELSE LET subtracting == [self EXCEPT !.sub = [evaluated |-> TRUE,
                                                      capacity |-> capacity]]
             IN  IF capacity < RATE
                 THEN IF overflow_checks
                      THEN [self |-> [subtracting EXCEPT !.panicked = TRUE], res |-> res]
                      ELSE [self |-> [subtracting EXCEPT !.CAPACITY = MAX_CAPACITY],
                            res |-> res]
                 ELSE LET new_capacity == capacity - RATE
                      IN  [self |-> [subtracting EXCEPT
                                         !.STATE = IF capacity < RATE THEN 2 ELSE @,
                                         !.CAPACITY = Min(Max(new_capacity, 0), MAX_CAPACITY)],
                           res |-> res]

\* Mock::get_bst: while STATE is 2 the capacity grows by RATE and STATE
\* becomes 1 once the sum exceeds MAX_CAPACITY; otherwise it shrinks by RATE
\* and STATE becomes 2 once less than RATE is left; the clamped capacity is
\* stored and the capacity read at entry returned. `new_capacity -= RATE` is
\* on u32: below RATE a build with overflow checks panics, one without gets
\* a wrapped value of at least 2^32 - RATE, which is not less than RATE and
\* is clamped to MAX_CAPACITY
Mock_get_bst(self, overflow_checks) ==
    LET state == self.STATE
        capacity == self.CAPACITY
        res == IF state \in {1, 2} THEN Ok(capacity) ELSE Failed("Invalid BatteryState")
    IN  IF state = 2
        THEN LET new_capacity == capacity + RATE
             IN  [self |-> [self EXCEPT !.STATE = IF new_capacity > MAX_CAPACITY THEN 1 ELSE @,
                                        !.CAPACITY = Min(Max(new_capacity, 0), MAX_CAPACITY),
                                        !.sub = [evaluated |-> FALSE, capacity |-> 0]],
                  res |-> res]
        ELSE LET subtracting == [self EXCEPT !.sub = [evaluated |-> TRUE,
                                                      capacity |-> capacity]]
             IN  IF capacity < RATE
                 THEN IF overflow_checks
                      THEN [self |-> [subtracting EXCEPT !.panicked = TRUE], res |-> res]
                      ELSE [self |-> [subtracting EXCEPT !.CAPACITY = MAX_CAPACITY],
                            res |-> res]
                 ELSE LET new_capacity == capacity - RATE
                      IN  [self |-> [subtracting EXCEPT
                                         !.STATE = IF new_capacity < RATE THEN 2 ELSE @,
                                         !.CAPACITY = Min(Max(new_capacity, 0), MAX_CAPACITY)],
                           res |-> res]

\* Mock::get_temperature: the sample moves by 10 in its direction, which
\* turns at 3232 and at 2732
Mock_get_temperature(self) ==
    LET moved == self.SAMPLE[1] + 10 * self.SAMPLE[2]
    IN  [self EXCEPT !.SAMPLE = <<moved, IF moved >= 3232 \/ moved <= 2732
                                         THEN -self.SAMPLE[2]
                                         ELSE self.SAMPLE[2]>>]

\* a call of Mock::get_bst
MockGetBst(overflow_checks) ==
    /\ ~mock.panicked
    /\ LET r == Mock_get_bst(mock, overflow_checks)
       IN  /\ mock' = r.self
           /\ last' = [handler |-> "Mock::get_bst",
                       calls |-> <<[method |-> "get_bst", arg |-> 0, res |-> r.res]>>]
    /\ UNCHANGED <<rtc, battery, built, budget, debug, serial>>

\* a call of Mock::get_temperature
MockGetTemperature ==
    /\ ~mock.panicked
    /\ mock' = Mock_get_temperature(mock)
    /\ last' = [handler |-> "Mock::get_temperature", calls |-> <<>>]
    /\ UNCHANGED <<rtc, battery, built, budget, debug, serial>>

MockInit == Start(NoLink)

MockNext ==
    \/ \E overflow_checks \in BOOLEAN : MockGetBst(overflow_checks)
    \/ MockGetTemperature

MockSpec == MockInit /\ [][MockNext]_vars

\* ------------------------------------------------------------------- claims
\* the positions at which a caller holds the port (line 124 to the return)
InExchange(c) ==
    pc[c] \in {"clear", "write", "flush", "readhdr", "chklen", "readrest",
               "process", "deser"}

\* the positions after the input buffer was cleared
AfterClear == {"write", "flush", "readhdr", "chklen", "readrest", "process", "deser"}

\* the positions after the frame was written
AfterWrite == {"flush", "readhdr", "chklen", "readrest", "process", "deser"}

\* the packets the peer sent in answer to frame r
Answer(r) == SelectSeq(sent, LAMBDA p : p[1] = r)

\* the first n bytes of buf are the logical payload of the answer to frame r
\* and every byte after them is zero
IsPayloadOf(buf, n, r) ==
    /\ \A i \in 0..(n - 1) : At(buf, i) = PeerPayload(r, i)
    /\ \A i \in n..(BUFFER_SZ - 1) : At(buf, i) = 0

\* C1: two exchanges on the same session never interleave their channel
\* operations: a caller is between its clear and its return only while it
\* owns the lock, so no other caller is there at the same time.
C1_MutualExclusion ==
    \A c \in Callers :
        InExchange(c) =>
            /\ lock = c
            /\ \A d \in Callers \ {c} : ~InExchange(d)

C1_Witness ==
    \E c, d \in Callers :
        /\ c # d
        /\ pc[c] \in {"readhdr", "readrest"}
        /\ pc[d] = "lock"

C3_OwnResponse ==
    \A c \in Callers :
        (pc[c] = "idle" /\ result[c].kind = "Ok") =>
            IsPayloadOf(result[c].response_buf, result[c].offset, myReq[c])

\* C4: the bytes an ended exchange left in the input buffer are discarded by
\* the next exchange's clear: from its write on, none of them is in the
\* buffer, so no read of that exchange can return one.
C4_StaleDiscarded ==
    \A c \in Callers : pc[c] \in AfterClear => stale = 0

C4_Witness ==
    \E c, d \in Callers :
        /\ c # d
        /\ pc[c] = "idle" /\ pc[d] = "idle"
        /\ result[c].kind = "InvalidLength"
        /\ myReq[d] = myReq[c] + 1
        /\ discarded > 0
        /\ result[d].kind = "Ok"
        /\ result[d].offset > 0
        /\ IsPayloadOf(result[d].response_buf, result[d].offset, myReq[d])

\* C5: no inbound packet makes Serial::send panic.
C5_NoPanic ==
    \A c \in Callers : pc[c] # "panicked"

\* C6: a length byte outside [5, 69] ends the exchange at once with an
\* error: nothing more is read from the channel, the response buffer, the
\* offset and the discriminant keep their values, the lock is released and
\* deserialize is not reached.
C6_InvalidLengthRejected ==
    [][\A c \in Callers :
          (/\ pc[c] = "chklen"
           /\ pc'[c] # "chklen"
           /\ ~(At(packet[c], 2) >= 5 /\ At(packet[c], 2) <= 69))
          => /\ pc'[c] = "idle"
             /\ result'[c].kind = "InvalidLength"
             /\ input' = input
             /\ response_buf'[c] = response_buf[c]
             /\ offset'[c] = offset[c]
             /\ cmd_code'[c] = cmd_code[c]
             /\ lock' = 0]_vars

C6_Witness ==
    \E c \in Callers :
        /\ pc[c] = "idle"
        /\ result[c].kind = "InvalidLength"
        /\ At(packet[c], 2) \in {3, 70}
        /\ Len(input) = At(packet[c], 2)

\* C7: when the payload slice of a packet does not fit in what is left of
\* the 256-byte response buffer, the exchange returns an error value and the
\* buffer is left as it was.
C7_OverflowIsError ==
    [][\A c \in Callers :
          LET start == IF SOM(At(packet[c], 7)) THEN 13 ELSE 9
              end == 4 + At(packet[c], 2)
          IN  (/\ pc[c] = "process"
               /\ pc'[c] # "process"
               /\ start <= end
               /\ offset[c] + (end - start) > 256)
              => /\ pc'[c] = "idle"
                 /\ result'[c].kind \in {"SerialError", "InvalidLength", "DoesNotFit"}
                 /\ response_buf'[c] = response_buf[c]]_vars

\* the fragment a packet <<frame, len, flags>> carries: what follows the 13
\* header and discriminant bytes of a SOM packet, the 9 header bytes otherwise
FragSize(p) == IF SOM(p[3]) THEN 4 + p[2] - 13 ELSE 4 + p[2] - 9

RECURSIVE TotalSize(_)
TotalSize(ans) == IF ans = <<>> THEN 0 ELSE FragSize(Head(ans)) + TotalSize(Tail(ans))

\* ans is a partition into N >= 2 fragments, SOM only on the first and EOM
\* only on the last, the first of at most firstMax bytes, the others of at
\* most 64
IsPartition(ans, firstMax) ==
    /\ Len(ans) >= 2
    /\ \A k \in 1..Len(ans) :
          /\ SOM(ans[k][3]) <=> k = 1
          /\ EOM(ans[k][3]) <=> k = Len(ans)
          /\ FragSize(ans[k]) >= 0
          /\ FragSize(ans[k]) <= IF k = 1 THEN firstMax ELSE 64

\* the exchange of caller c has ended, it started on an idle link (so the
\* packets it read are those of its own answer), and neither a channel
\* operation failed nor did the message definition reject the bytes
Delivered(c) ==
    /\ pc[c] \in {"idle", "panicked"}
    /\ clean[c]
    /\ result[c].kind \in {"Ok", "InvalidLength", "DoesNotFit", "Panic"}

Reassembled(c) ==
    /\ result[c].kind = "Ok"
    /\ result[c].offset = TotalSize(Answer(myReq[c]))
    /\ IsPayloadOf(result[c].response_buf, result[c].offset, myReq[c])

\* C8 as stated: every fragment, the first included, may have up to 64
\* bytes, and there may be any number of them.
C8_AnyPartition ==
    \A c \in Callers :
        (Delivered(c) /\ IsPartition(Answer(myReq[c]), 64)) => Reassembled(c)

\* C8: for a partition of a payload of at most 256 bytes into N >= 2
\* fragments, the first of at most 60 bytes and the others of at most 64,
\* the reassembled buffer is the concatenation of the fragments in order.
C8_Reassembly ==
    \A c \in Callers :
        (/\ Delivered(c)
         /\ IsPartition(Answer(myReq[c]), 60)
         /\ TotalSize(Answer(myReq[c])) <= 256)
        => Reassembled(c)

C8_Witness ==
    \E c \in Callers :
        /\ Delivered(c)
        /\ IsPartition(Answer(myReq[c]), 60)
        /\ Len(Answer(myReq[c])) >= 5
        /\ Reassembled(c)
        /\ result[c].offset >= 252

ThermalFrame(lenByte, code) ==
    <<2, 15, lenByte, 1, 1, 9, 128, 211, 125, 2, 9>>
        \o <<code \div 256, code % 256>> \o ReqBytes(6)

IsThermal6(c) ==
    /\ pc[c] \in AfterWrite
    /\ request[c][1] = "Thermal"
    /\ request[c][3] = 6

\* C10 as stated: the length byte of that frame is 0x0D = 5 + 2 + 6.
C10_LengthByte0D ==
    \A c \in Callers :
        IsThermal6(c) => wire[myReq[c]] = ThermalFrame(13, request[c][2])

\* C10: the frame is the 11 header bytes with length byte 0x0F = 5 + 2 + 2 + 6
\* (the 2-byte discriminant is counted), the discriminant, the 6 payload bytes.
C10_ThermalFrame ==
    \A c \in Callers :
        IsThermal6(c) => wire[myReq[c]] = ThermalFrame(15, request[c][2])

C10_Witness ==
    \E c \in Callers : IsThermal6(c) /\ request[c][2] = 769

\* C11: for every request that serialized into the buffer, byte 2 of the
\* written frame is 5 + 2 + payload size, the payload size being the 2-byte
\* discriminant plus the serialized payload (the size append_cmd returned);
\* the sum is at most 255, so the byte holds it exactly.
C11_LengthField ==
    \A c \in Callers :
        pc[c] \in AfterWrite =>
            LET payload_sz == 2 + request[c][3]
            IN  /\ request_sz[c] = payload_sz
                /\ 5 + 2 + payload_sz <= 255
                /\ At(wire[myReq[c]], 2) = 5 + 2 + payload_sz

C11_Witness ==
    \E c \in Callers :
        /\ pc[c] \in AfterWrite
        /\ request[c][3] = 243
        /\ At(wire[myReq[c]], 2) = 252
        /\ Len(wire[myReq[c]]) = 256

\* the wire address the operations of each subsystem use
OpAddress(op) ==
    CASE op \in {"get_bst", "get_bix", "set_btp"} -> 8
      [] op \in {"get_temperature", "thermal_get_var", "thermal_set_var"} -> 9
      [] op \in {"get_capabilities", "get_real_time", "get_wake_status",
                 "get_expired_timer_wake_policy", "get_timer_value"} -> 11

\* C12: the bytes an operation writes are the 4 bus-transport bytes
\* 02 0F length 01, the 5 message-transport bytes 01 dst 80 D3 7D, the 2
\* application bytes 02 dst, the discriminant big-endian once, then the n
\* serialized payload bytes and nothing more, 13 + n <= 256 in all, with dst
\* 0x08 for battery, 0x09 for thermal and 0x0B for time-alarm operations.
C12_FrameLayout ==
    \A c \in Callers :
        pc[c] \in AfterWrite =>
            LET f == wire[myReq[c]]
                dst == OpAddress(request[c][4])
                code == request[c][2]
                n == request[c][3]
            IN  /\ Len(f) = 13 + n
                /\ Len(f) <= 256
                /\ f = <<2, 15, f[3], 1>>
                         \o <<1, dst, 128, 211, 125>>
                         \o <<2, dst>>
                         \o <<code \div 256, code % 256>>
                         \o ReqBytes(n)

C12_Witness ==
    \E c \in Callers :
        /\ pc[c] \in AfterWrite
        /\ request[c][4] = "get_timer_value"
        /\ request[c][3] = 243
        /\ wire[myReq[c]][6] = 11
        /\ wire[myReq[c]][256] = ReqBytes(243)[243]

\* C13: when the request does not serialize (its payload does not fit in the
\* region after the 13 header and discriminant bytes), the call returns a
\* serialization error at once: the lock is not taken and nothing is cleared,
\* written or read on the channel.
C13_SerializationError ==
    [][\A c \in Callers, op \in Operations, code \in Discriminants,
          n \in {m \in PayloadSizes : m > 256 - 13} :
          (pc[c] = "idle" /\ calls' # calls /\ Call(c, FacadeDst(op), code, n, op))
          => /\ pc'[c] = "idle"
             /\ result'[c].kind = "SerializationError"
             /\ reply'[c].kind = "SerializationError"
             /\ lock' = lock
             /\ input' = input
             /\ wire' = wire
             /\ discarded' = discarded
             /\ nread' = nread]_vars

C13_Witness ==
    \E c \in Callers :
        /\ pc[c] = "idle"
        /\ result[c].kind = "SerializationError"
        /\ request[c][3] = 244
        /\ lock = 0
        /\ wire = <<>>

\* C14: the first channel operation that fails or times out ends the
\* exchange with an error: a failed clear, write or flush, or a failed or
\* timed-out read of the header or of the packet remainder, returns the
\* error at once, so no read follows it and deserialize is not called on the
\* partially reassembled buffer.
C14_FirstFailureEnds ==
    [][\A c \in Callers :
          (pc[c] \in {"clear", "write", "flush", "readhdr", "readrest"}
           /\ (IoErr(c) \/ \E timeout \in BOOLEAN : ReadErr(c, timeout)))
          => /\ pc'[c] = "idle"
             /\ result'[c].kind = "SerialError"
             /\ reply'[c].kind = "SerialError"
             /\ lock' = 0
             /\ response_buf'[c] = response_buf[c]
             /\ offset'[c] = offset[c]
             /\ nread'[c] = nread[c]]_vars

C14_Witness ==
    \E c \in Callers :
        /\ pc[c] = "idle"
        /\ result[c].kind = "SerialError"
        /\ myReq[c] = 1
        /\ nread[c] >= 1
        /\ offset[c] > 0
        /\ lock = 0

\* C15: the discriminant given to deserialize is the big-endian value at
\* offsets 11..12 of the first packet read in the exchange, whatever the
\* flags of the packets are.  (An exchange that started on an idle link reads
\* the packets of its own answer, the first of them first.)
C15_FirstPacketDiscriminant ==
    \A c \in Callers :
        (pc[c] = "deser" /\ clean[c]) =>
            LET first == Answer(myReq[c])[1]
            IN  cmd_code[c]
                  = from_be_bytes(Slice(PeerPacket(first[1], 0, first[2], first[3]), 11, 13))

\* C16: when the exchange succeeds but the decoded response is not the
\* variant the operation expects, the operation returns an error; it returns
\* Ok only for the expected variant, with the value that response carries.
C16_VariantChecked ==
    \A c \in Callers :
        /\ (pc[c] = "idle" /\ result[c].kind = "Ok" /\ result[c].cmd_code # request[c][2])
           => reply[c].kind = "WrongResponse"
        /\ reply[c].kind = "Ok"
           => /\ result[c].kind = "Ok"
              /\ result[c].cmd_code = request[c][2]
              /\ reply[c].value = result[c].response_buf

C16_Witness ==
    \E c \in Callers :
        /\ pc[c] = "idle"
        /\ result[c].kind = "Ok"
        /\ result[c].cmd_code \in Discriminants \ {request[c][2]}
        /\ result[c].offset > 0
        /\ reply[c].kind = "WrongResponse"

\* C17: one call of an operation performs at most one exchange, and that
\* exchange writes its frame at most once: the lock is asked for only by a
\* new call, a frame is written only by a call that has not written yet, and
\* a failure goes back to the caller as an error instead of a second attempt.
C17_NoRetry ==
    [][/\ wire' # wire
          => \E c \in Callers :
                /\ pc[c] = "write"
                /\ myReq[c] = 0
                /\ myReq'[c] = Len(wire) + 1
                /\ wire' = Append(wire, Slice(buffer[c], 0, 13 + request[c][3]))
       /\ \A c \in Callers :
             /\ (pc'[c] = "lock" /\ pc[c] # "lock")
                => (pc[c] = "idle" /\ calls' = calls - 1)
             /\ (pc'[c] \in {"clear", "write"} /\ pc[c] # pc'[c])
                => (myReq[c] = 0 /\ pc[c] \in {"lock", "clear"})
             /\ (InExchange(c) /\ result'[c] # result[c])
                => (pc'[c] \in {"idle", "panicked"} /\ wire' = wire)]_vars

C17_Witness ==
    \E c \in Callers :
        /\ pc[c] = "idle"
        /\ result[c].kind \in {"SerialError", "InvalidLength", "DeserializationError"}
        /\ reply[c].kind = result[c].kind
        /\ myReq[c] > 0
        /\ calls = 0
        /\ \A d \in Callers : pc[d] = "idle"
        /\ Len(wire) <= MaxCalls

\* C18: no reassembly state survives an exchange: when an exchange starts to
\* read, its offset is 0, its response buffer is all zero and no discriminant
\* is captured, whatever the previous exchange left behind.
C18_FreshReassembly ==
    \A c \in Callers :
        (pc[c] = "readhdr" /\ nread[c] = 0) =>
            /\ offset[c] = 0
            /\ Full(response_buf[c]) = [i \in 1..256 |-> 0]
            /\ cmd_code[c] = 0

\* the second exchange of a caller whose first exchange reassembled one
\* packet of its answer and then failed
C18_Witness ==
    \E c \in Callers :
        /\ pc[c] = "readhdr" /\ nread[c] = 0
        /\ myReq[c] = 2
        /\ \A d \in Callers \ {c} : pc[d] = "idle" /\ result[d] = NoResult
        /\ Len(sent) = 1
        /\ sent[1][2] = 14 /\ ~EOM(sent[1][3])
        /\ input = <<>> /\ peerRest = <<>> /\ discarded = 0
        /\ offset[c] = 0

\* the positions of the read loop (lines 139-182)
InLoop(c) == pc[c] \in {"readhdr", "chklen", "readrest", "process"}

\* a step of the read loop of c, or of the peer feeding it
LoopStep(c) ==
    \/ ReadHeaderOk(c) \/ CheckLen(c) \/ ReadRestOk(c) \/ Process(c)
    \/ PeerRest
    \/ \E p \in menu : PeerStream(p[1], p[2])

C20_ExchangeReturns ==
    \A c \in Callers :
        InExchange(c) ~> (pc[c] = "idle" /\ result[c].kind # "None" /\ lock # c)

\* the stored result that a source call of the Rtc module feeds
Stored(self, call) ==
    CASE call.method = "get_capabilities" -> self.capabilities
      [] call.method = "get_real_time" -> self.timestamp
      [] call.method = "get_timer_value" -> self.timers[call.arg].value
      [] call.method = "get_expired_timer_wake_policy" -> self.timers[call.arg].wake_policy
      [] call.method = "get_wake_status" -> self.timers[call.arg].timer_status

\* the health mark of the section in which that result is rendered
SectionHealthy(self, call) ==
    IF call.method \in {"get_capabilities", "get_real_time"}
    THEN Rtc_is_healthy(self)
    ELSE RtcTimer_is_healthy(self.timers[call.arg])

\* C21: when a source call fails in Rtc::update for an item that an earlier
\* update had fetched, the item's last good value stays on display and the
\* item's section is marked unhealthy
C21_KeepsLastGood ==
    [][\A k \in 1..Len(last'.calls) :
          LET call == last'.calls[k]
          IN  (last'.handler = "Rtc::update" /\ ~call.res.ok /\ Stored(rtc, call).ok)
                  => /\ Shown(Stored(rtc', call)) = Shown(Stored(rtc, call))
                     /\ ~SectionHealthy(rtc', call)]_vars

\* the get_bst calls made by a handler run
BstCalls(run) == SelectSeq(run.calls, LAMBDA call : call.method = "get_bst")

\* C22: a failed get_bst in Battery::update leaves bst_data as it was (the
\* last fetched value, or the default) and makes bst_success false; a
\* successful one stores the fetched value and makes bst_success true; a
\* handler that does not call get_bst changes neither, so bst_success tells
\* whether the most recent get_bst succeeded
C22_BstKept ==
    [][IF BstCalls(last') = <<>>
       THEN /\ battery'.bst_data = battery.bst_data
            /\ battery'.state.bst_success = battery.state.bst_success
       ELSE /\ Len(BstCalls(last')) = 1
            /\ LET res == BstCalls(last')[1].res
               IN  IF res.ok
                   THEN battery'.bst_data = res.v /\ battery'.state.bst_success
                   ELSE /\ battery'.bst_data = battery.bst_data
                        /\ ~battery'.state.bst_success]_vars

\* an update has failed after an earlier one had fetched a status: the
\* fetched value is still there
C22_Witness ==
    /\ last.handler = "Battery::update"
    /\ ~BstCalls(last)[1].res.ok
    /\ battery.bst_data \in BstValues
    /\ ~battery.state.bst_success
    /\ battery.t_sec >= 2

\* the order of the port's methods in Serial::send (lines 129-156)
ChannelOrder == <<"clear", "write", "flush", "read">>

IsPrefix(a, b) == Len(a) <= Len(b) /\ a = SubSeq(b, 1, Len(a))

\* C23: in every exchange the channel operations come in the order clear,
\* write, flush, reads: no read before the flush, and one clear, before the
\* write and never after it
C23_ChannelOrder ==
    \A c \in Callers :
        /\ IsPrefix(ops[c], ChannelOrder)
        /\ pc[c] \in {"chklen", "readrest", "process", "deser"} => ops[c] = ChannelOrder
        /\ myReq[c] # 0 /\ InExchange(c) => IsPrefix(<<"clear", "write">>, ops[c])

\* an exchange has cleared, written, flushed and read two packets
C23_Witness ==
    \E c \in Callers :
        /\ pc[c] = "deser"
        /\ ops[c] = ChannelOrder
        /\ nread[c] >= 2

\* C24: the payload slice of every inbound packet whose length byte passed
\* the [5, 69] check is well formed: it starts at 13 with SOM and at 9
\* without, ends at 4 + length byte, and start <= end, so its length
\* (length byte - 9 with SOM, length byte - 5 without) is never negative
C24_PayloadSliceWellFormed ==
    \A c \in Callers :
        pc[c] = "process" =>
            LET flags == At(packet[c], MCTP_FLAGS_IDX)
                len == At(packet[c], SMBUS_LEN_IDX)
                start == payload_start_idx(flags)
                end == SMBUS_HEADER_SZ + len
            IN  /\ valid_len(len)
                /\ start = (IF SOM(flags) THEN 13 ELSE 9)
                /\ start <= end
                /\ end - start = (IF SOM(flags) THEN len - 9 ELSE len - 5)
                /\ end - start >= 0

\* the payload slice of the packet caller c has just read (line 173)
data_slice(c) ==
    LET flags == At(packet[c], MCTP_FLAGS_IDX)
    IN  Slice(packet[c], IF SOM(flags) THEN 13 ELSE 9, 4 + At(packet[c], SMBUS_LEN_IDX))

\* the bytes of the response buffer from the offset on are zero, and the
\* offset is inside the buffer
ZeroPadded(c) ==
    /\ offset[c] <= BUFFER_SZ
    /\ Len(Trim(response_buf[c])) <= offset[c]

\* C25: in the read loop the offset is the sum of the lengths of the payload
\* slices processed so far and at most 256, response_buf[0..offset] is their
\* concatenation in order, every byte from the offset on is zero, and
\* deserialize gets the whole 256-byte buffer: the loop starts with offset 0
\* and a zero buffer, each processed packet appends its slice at the offset
\* and advances the offset by the slice's length, and no other step of the
\* loop changes either
C25_OffsetAndPadding ==
    [][\A c \in Callers :
          /\ (InLoop(c) \/ pc[c] = "deser")' => ZeroPadded(c)'
          /\ pc[c] = "flush" /\ pc'[c] = "readhdr"
                => offset'[c] = 0 /\ Trim(response_buf'[c]) = <<>>
          /\ pc[c] = "process" /\ pc'[c] \in {"readhdr", "deser"}
                => /\ offset'[c] = offset[c] + Len(data_slice(c))
                   /\ Slice(response_buf'[c], 0, offset[c]) = Slice(response_buf[c], 0, offset[c])
                   /\ Slice(response_buf'[c], offset[c], offset'[c]) = data_slice(c)
          /\ pc[c] \in {"readhdr", "chklen", "readrest"} /\ InLoop(c)'
                => offset'[c] = offset[c] /\ response_buf'[c] = response_buf[c]
          /\ pc[c] = "deser" /\ result'[c].kind = "Ok"
                => /\ result'[c].response_buf = response_buf[c]
                   /\ result'[c].offset = offset[c]
                   /\ Len(Full(result'[c].response_buf)) = BUFFER_SZ
                   /\ \A i \in offset[c]..(BUFFER_SZ - 1) :
                          Full(result'[c].response_buf)[i + 1] = 0]_vars

\* two packets have been reassembled and deserialize has the buffer
C25_Witness ==
    \E c \in Callers :
        /\ pc[c] = "idle"
        /\ result[c].kind = "Ok"
        /\ nread[c] >= 2
        /\ result[c].offset > 9
        /\ Len(result[c].response_buf) = result[c].offset

\* an exchange of caller d has failed: send returned an error or did not
\* return
Failed_exchange(d) == result[d].kind \notin {"None", "Ok"}

\* C26: after a failed exchange the session stays usable: a later call, on
\* the same session or on a clone, can still take the channel
C26_SessionStaysUsable ==
    \A c \in Callers :
        (pc[c] = "lock" /\ lock = 0 /\ \E d \in Callers : Failed_exchange(d))
            => ~poisoned

\* no packet of the answer has SOM set
NoSom(ans) == ans # <<>> /\ \A k \in 1..Len(ans) : ~SOM(ans[k][3])

\* C27: a response none of whose packets has SOM set is not reported as a
\* protocol error: the payload of every packet is taken from offset 9 and
\* deserialize is called with discriminant 0.  (An exchange that started on
\* an idle link reads the packets of its own answer.)
C27_NoSomAccepted ==
    \A c \in Callers :
        LET ans == Answer(myReq[c])
        IN  /\ (pc[c] = "deser" /\ myReq[c] # 0 /\ clean[c] /\ NoSom(ans))
                  => /\ cmd_code[c] = 0
                     /\ offset[c] = TotalSize(ans)
                     /\ IsPayloadOf(response_buf[c], offset[c], myReq[c])
            /\ (/\ pc[c] = "idle" /\ myReq[c] # 0 /\ clean[c] /\ NoSom(ans)
                /\ \A k \in 1..Len(ans) : valid_len(ans[k][2]))
                  => /\ result[c].kind \notin {"InvalidLength", "DoesNotFit"}
                     /\ result[c].kind = "Ok" => result[c].cmd_code = 0

\* a continuation packet and then an EOM packet without SOM have been
\* reassembled and deserialize is about to be called
C27_Witness ==
    \E c \in Callers :
        /\ pc[c] = "deser"
        /\ myReq[c] # 0 /\ clean[c]
        /\ Len(Answer(myReq[c])) >= 2
        /\ NoSom(Answer(myReq[c]))
        /\ offset[c] > 0

\* the flags byte of a frame, where the read loop takes it (line 158)
FlagsOf(frame) == At(frame, MCTP_FLAGS_IDX)

CapCalls(run) == SelectSeq(run.calls, LAMBDA call : call.method = "get_capabilities")

\* C29: once get_capabilities has succeeded, every later Rtc::update leaves
\* the stored capabilities as they are and does not call get_capabilities;
\* while the stored capabilities are an error, every update calls it exactly
\* once and stores what it returned
C29_CapabilitiesFetchedOnce ==
    [][IF rtc.capabilities.ok
       THEN /\ rtc'.capabilities = rtc.capabilities
            /\ CapCalls(last') = <<>>
       ELSE /\ Len(CapCalls(last')) = 1
            /\ rtc'.capabilities = CapCalls(last')[1].res]_vars

\* an update has run with the capabilities already fetched: it made the
\* other seven calls only, and its time stamp call failed
C29_Witness ==
    /\ last.handler = "Rtc::update"
    /\ rtc.capabilities.ok
    /\ CapCalls(last) = <<>>
    /\ Len(last.calls) = 7
    /\ ~rtc.timestamp.ok

\* the get_bix calls made by a handler run
BixCalls(run) == SelectSeq(run.calls, LAMBDA call : call.method = "get_bix")

\* C30: get_bix is called once, by Battery::new, which stores what it
\* returned; no update and no event calls it, so bix_data and bix_success
\* stay as construction left them, also when that read failed
C30_BixReadOnce ==
    [][IF ~built.battery
       THEN /\ Len(BixCalls(last')) = 1
            /\ LET res == BixCalls(last')[1].res
               IN  IF res.ok
                   THEN battery'.bix_data = res.v /\ battery'.state.bix_success
                   ELSE battery'.bix_data = 0 /\ ~battery'.state.bix_success
       ELSE /\ BixCalls(last') = <<>>
            /\ battery'.bix_data = battery.bix_data
            /\ battery'.state.bix_success = battery.state.bix_success]_vars

\* the read of Battery::new failed and a later update, whose get_bst
\* succeeded, has left the static data unread
C30_Witness ==
    /\ built.battery
    /\ last.handler = "Battery::update"
    /\ battery.t_sec >= 2
    /\ battery.state.bst_success
    /\ ~battery.state.bix_success
    /\ battery.bix_data = 0

\* the set_btp calls made by a handler run
SetBtpCalls(run) == SelectSeq(run.calls, LAMBDA call : call.method = "set_btp")

EnterPress == [code |-> "Enter", kind |-> "Press"]

\* C31: the trip point starts as 0 with btp_success true; an Enter press
\* resets the input and, when the text parses, calls set_btp once with the
\* parsed value: on success btp becomes that value and btp_success true, on
\* failure btp stays and btp_success becomes false; when the text does not
\* parse, set_btp is not called and both stay. No other step changes them,
\* so btp is 0 or the value of the most recent successful set_btp
C31_EnterSetsTripPoint ==
    /\ battery.state.btp = 0
    /\ battery.state.btp_success
    /\ [][/\ (\E source \in BatterySources : BatteryEvent(EnterPress, source))
             => /\ battery'.state.btp_input = <<>>
                /\ LET text == parse(battery.state.btp_input)
                   IN  IF text.ok
                       THEN /\ Len(SetBtpCalls(last')) = 1
                            /\ SetBtpCalls(last')[1].arg = text.v
                       ELSE SetBtpCalls(last') = <<>>
          /\ IF SetBtpCalls(last') = <<>>
             THEN /\ battery'.state.btp = battery.state.btp
                  /\ battery'.state.btp_success = battery.state.btp_success
             ELSE LET set == SetBtpCalls(last')[1]
                  IN  IF set.res.ok
                      THEN battery'.state.btp = set.arg /\ battery'.state.btp_success
                      ELSE /\ battery'.state.btp = battery.state.btp
                           /\ ~battery'.state.btp_success]_vars

\* a trip point was set, then another one was typed and refused by the
\* source: the first one is still there
C31_Witness ==
    /\ last.handler = "Battery::handle_event"
    /\ Len(SetBtpCalls(last)) = 1
    /\ ~SetBtpCalls(last)[1].res.ok
    /\ SetBtpCalls(last)[1].arg = 1
    /\ battery.state.btp = 11
    /\ ~battery.state.btp_success
    /\ battery.state.btp_input = <<>>

\* the handlers that run Battery::update
Updating == {"Battery::new", "Battery::update"}

\* C32: t_sec counts the updates (the one of Battery::new included) and
\* t_min = ceil(t_sec / 60); a sample is inserted by the updates number 1, 61,
\* 121, ... and by no other step, and it is the capacity this update fetched
\* or, when its get_bst failed, the one stored before (the last fetched one
\* or the default 0)
C32_SampleEveryMinute ==
    /\ battery.t_sec = 0 /\ battery.t_min = 0 /\ battery.state.samples = <<>>
    /\ [](/\ built.battery => battery.t_sec >= 1
          /\ battery.t_min = (battery.t_sec + 59) \div 60
          /\ Len(battery.state.samples) = battery.t_min)
    /\ [][IF last'.handler \in Updating
          THEN /\ battery'.t_sec = battery.t_sec + 1
               /\ IF battery'.t_sec % 60 = 1
                  THEN LET bst == BstCalls(last')[1].res
                       IN  /\ battery'.state.samples =
                                  Append(battery.state.samples,
                                         IF bst.ok THEN bst.v ELSE battery.bst_data)
                           /\ battery'.t_min = battery.t_min + 1
                  ELSE /\ battery'.state.samples = battery.state.samples
                       /\ battery'.t_min = battery.t_min
          ELSE /\ battery'.t_sec = battery.t_sec
               /\ battery'.t_min = battery.t_min
               /\ battery'.state.samples = battery.state.samples]_vars

\* update number 121 failed to fetch and inserted the capacity fetched
\* before, as third sample after those of the updates 1 and 61
C32_Witness ==
    /\ last.handler = "Battery::update"
    /\ battery.t_sec = 121
    /\ battery.t_min = 3
    /\ ~BstCalls(last)[1].res.ok
    /\ battery.state.samples = <<0, 1, 2>>

\* C34: whenever update_scroll evaluates `height - new_lines`, new_lines is
\* at most height, so the unsigned subtraction does not underflow
C34_NoUnderflow == debug.sub.evaluated => debug.sub.new_lines <= debug.sub.height

\* the view shows the last cached line: the position is the number of lines
\* above the visible ones, 0 while all lines fit
AtBottom(self) ==
    self.y_scroll.pos = IF self.logs > self.y_scroll.length
                        THEN self.logs - self.y_scroll.length
                        ELSE 0

\* C33: an update that inserts lines into a view scrolled to the bottom,
\* after which the logs exceed the visible height, leaves the view at the
\* bottom: y_scroll.pos = logs.len() - visible height
C33_StaysAtBottom ==
    [][(/\ last'.handler = "Debug::update"
        /\ debug'.logs > debug.logs
        /\ AtBottom(debug)
        /\ debug'.logs > debug'.y_scroll.length)
       => /\ ~debug'.panicked
          /\ debug'.y_scroll.pos = debug'.logs - debug'.y_scroll.length]_vars

\* C35: over the calls of Mock::get_bst the stored capacity is a multiple of
\* 1000 in 0..10000 and the state is 1 or 2; `new_capacity -= RATE` is only
\* evaluated with a capacity of at least 1000; while the state is 2 a call
\* raises the capacity by 1000 up to 10000, and the state becomes 1 by the
\* call made at 10000; while the state is 1 a call lowers it by 1000, and
\* the state becomes 2 again by the call that reaches 0
C35_MockCapacityCycle ==
    /\ [](/\ mock.CAPACITY \in 0..MAX_CAPACITY
          /\ mock.CAPACITY % RATE = 0
          /\ mock.STATE \in {1, 2}
          /\ mock.sub.evaluated => mock.sub.capacity >= RATE
          /\ ~mock.panicked)
    /\ [][last'.handler = "Mock::get_bst"
          => IF mock.STATE = 2
             THEN /\ mock'.CAPACITY = Min(mock.CAPACITY + RATE, MAX_CAPACITY)
                  /\ mock'.STATE = IF mock.CAPACITY = MAX_CAPACITY THEN 1 ELSE 2
                  /\ ~mock'.sub.evaluated
             ELSE /\ mock'.sub.evaluated
                  /\ mock'.CAPACITY = mock.CAPACITY - RATE
                  /\ mock'.STATE = IF mock'.CAPACITY = 0 THEN 2 ELSE 1]_vars

\* the capacity has come back to 0 from 1000 and the state is 2 again
C35_Witness ==
    /\ last.handler = "Mock::get_bst"
    /\ last.calls[1].res = Ok(RATE)
    /\ mock.STATE = 2
    /\ mock.CAPACITY = 0
    /\ mock.sub.evaluated
    /\ mock.sub.capacity = RATE

====
